---- MODULE Spec2Model ----
(***************************************************************************)
(* A model of the constraint-workshop decision core: the commit gate       *)
(* (rule resolver and authority drift detector), the evidence gate and the *)
(* MGTP transition evaluators.                                             *)
(*                                                                         *)
(* Every component is a function called with caller-supplied arguments.    *)
(* The state is the call in progress: `op` names the function, `args` are  *)
(* its arguments and `result` what it returned (or the exception raised).  *)
(* `gate` is an AuthorityGate the caller holds, and `machines` are the     *)
(* StopMachine objects it holds, each with its own _state.                 *)
(*                                                                         *)
(* Python values: a dict is a function on its keys, a list a sequence, a   *)
(* tuple a sequence, None the value None below.  A key a dict does not     *)
(* carry is outside the function's DOMAIN.                                 *)
(***************************************************************************)
EXTENDS Integers, Sequences, FiniteSets, TLC

VARIABLES op, args, result, gate, machines

vars == <<op, args, result, gate, machines>>

\* ------------------------------------------------------------------ bounds

\* Longest rules_list handed to _find_match.
MaxMatchRules == 2
\* Longest allowlist / denylist / escalation handed to evaluate.
MaxListLen == 1
\* Longest allowlist handed to build_authority_graph.
MaxAllowLen == 2
\* Longest allowlist of the two rulesets compared for drift.
MaxDriftLen == 1
\* How many StopMachine objects the caller holds.
MaxMachines == 2

\* ----------------------------------------------------------- Python values

None == "<None>"

EmptyDict == [k \in {} |-> None]

\* dict.get(key), whose default is None
DictGet(d, key) == IF key \in DOMAIN d THEN d[key] ELSE None

\* dict.get(key, default)
DictGetOr(d, key, default) == IF key \in DOMAIN d THEN d[key] ELSE default

\* Every string the code orders with sorted(), in code point order
\* ("*" < upper case < "_" < lower case).
Lexicon ==
    <<"*", "DEPLOY", "FILE", "a", "allowlist_match", "default_refuse",
      "denylist_match", "escalation_match", "ev-001", "ev-002", "evidence_missing",
      "m", "outside_authority_window", "ricky", "sam", "z">>

Rank(s) == CHOOSE i \in 1..Len(Lexicon) : Lexicon[i] = s

\* str.__lt__
StrLt(a, b) == Rank(a) < Rank(b)

\* tuple.__lt__ on (actor, action) pairs
EdgeLt(e, f) == StrLt(e[1], f[1]) \/ (e[1] = f[1] /\ StrLt(e[2], f[2]))

InsertSorted(x, s) ==
    SelectSeq(s, LAMBDA y : ~StrLt(x, y)) \o <<x>> \o SelectSeq(s, LAMBDA y : StrLt(x, y))

RECURSIVE sorted_strs(_)
\* sorted(list of str)
sorted_strs(seq) ==
    IF seq = <<>> THEN <<>>
    ELSE InsertSorted(seq[Len(seq)], sorted_strs(SubSeq(seq, 1, Len(seq) - 1)))

RECURSIVE sorted_edges(_)
\* sorted(set of tuples)
sorted_edges(S) ==
    IF S = {} THEN <<>>
    ELSE LET m == CHOOSE e \in S : \A f \in S : ~EdgeLt(f, e)
         IN  <<m>> \o sorted_edges(S \ {m})

\* All sequences over S of length at most n
SeqUpTo(S, n) == UNION {[1..k -> S] : k \in 0..n}

\* All dicts with keys among K and values in V
Dicts(K, V) == UNION {[D -> V] : D \in SUBSET K}

\* --------------------------------------------- commit_gate/canonicalise.py

\* json.dumps(obj, sort_keys=True, ...): the text is determined by the
\* structure of obj (keys in sorted order, lists in the order given), which
\* is what a function and a sequence are.
canonicalise(obj) == <<"json", obj>>

\* sha256 hex digest of the canonical bytes, taken as collision free.
canonical_hash(obj) == <<"sha256", canonicalise(obj)>>

\* Python values as json.dumps meets them: a str, a list, and a dict, which
\* keeps its items in insertion order.
PyStr(value) == [cls |-> "str", value |-> value]

PyList(items) == [cls |-> "list", items |-> items]

PyDict(items) == [cls |-> "dict", items |-> items]

\* Where an item goes among items already sorted by key.
InsertByKey(x, s) ==
    SelectSeq(s, LAMBDA y : ~StrLt(x[1], y[1])) \o <<x>>
        \o SelectSeq(s, LAMBDA y : StrLt(x[1], y[1]))

\* Mutant: sort_keys is off, the items stay in insertion order.
SortItems_InsertionOrder(items) == items

RECURSIVE SortItems(_)
\* sort_keys=True: the (key, value) items of a dict in key order
SortItems(items) ==
    IF items = <<>> THEN <<>>
    ELSE InsertByKey(items[Len(items)], SortItems(SubSeq(items, 1, Len(items) - 1)))

RECURSIVE json_dumps(_)
RECURSIVE DumpElements(_, _)
RECURSIVE DumpItems(_, _)
\* The elements of a list from the i-th on, in the order given, "," between.
DumpElements(elems, i) ==
    IF i > Len(elems) THEN <<>>
    ELSE (IF i > 1 THEN <<",">> ELSE <<>>) \o json_dumps(elems[i]) \o DumpElements(elems, i + 1)

\* The items of a dict from the i-th on: "key":value, "," between.
DumpItems(items, i) ==
    IF i > Len(items) THEN <<>>
    ELSE (IF i > 1 THEN <<",">> ELSE <<>>) \o <<"\"", items[i][1], "\"", ":">>
            \o json_dumps(items[i][2]) \o DumpItems(items, i + 1)

\* json.dumps(obj, sort_keys=True, separators=(",", ":")): the text, token
\* by token.
json_dumps(obj) ==
    CASE obj.cls = "str" -> <<"\"", obj.value, "\"">>
      [] obj.cls = "list" -> <<"[">> \o DumpElements(obj.items, 1) \o <<"]">>
      [] obj.cls = "dict" -> <<"{">> \o DumpItems(SortItems(obj.items), 1) \o <<"}">>

\* canonicalise(obj) for a value given with its insertion order.
canonicalise_bytes(obj) == json_dumps(obj)

\* hashlib.sha256(canonicalise(obj)).hexdigest(), taken as collision free.
canonical_hash_bytes(obj) == <<"sha256", canonicalise_bytes(obj)>>

\* --------------------------------------------------- commit_gate/engine.py

ARTEFACT_VERSION == "0.1"

_scope_matches(rule_scope, request_scope) ==
    \A key \in DOMAIN rule_scope : DictGet(request_scope, key) = rule_scope[key]

\* Whether one rule of the loop's body reaches `return True`.
RuleHits(rule, actor_id, action_class, authority_scope) ==
    IF DictGet(rule, "actor_id") # None /\ rule["actor_id"] # actor_id THEN FALSE
    ELSE IF DictGet(rule, "action_class") # None /\ rule["action_class"] # action_class
         THEN FALSE
    ELSE _scope_matches(DictGetOr(rule, "scope_match", EmptyDict), authority_scope)

RECURSIVE FindMatchFrom(_, _, _, _, _)
FindMatchFrom(rules_list, i, actor_id, action_class, authority_scope) ==
    IF i > Len(rules_list) THEN FALSE
    ELSE IF RuleHits(rules_list[i], actor_id, action_class, authority_scope) THEN TRUE
    ELSE FindMatchFrom(rules_list, i + 1, actor_id, action_class, authority_scope)

_find_match(rules_list, actor_id, action_class, authority_scope) ==
    FindMatchFrom(rules_list, 1, actor_id, action_class, authority_scope)

build_request_obj(actor_id, action_class, context, authority_scope, invariant_hash) ==
    [actor_id |-> actor_id, action_class |-> action_class, context |-> context,
     authority_scope |-> authority_scope, invariant_hash |-> invariant_hash]

\* Mutant: the allowlist is consulted before the denylist.
Resolve_AllowFirst(ruleset, actor_id, action_class, authority_scope) ==
    IF _find_match(DictGetOr(ruleset, "allowlist", <<>>), actor_id, action_class, authority_scope)
    THEN [verdict |-> "ALLOW", reasons |-> <<"allowlist_match">>]
    ELSE IF _find_match(DictGetOr(ruleset, "denylist", <<>>), actor_id, action_class, authority_scope)
    THEN [verdict |-> "REFUSE", reasons |-> <<"denylist_match">>]
    ELSE IF _find_match(DictGetOr(ruleset, "escalation", <<>>), actor_id, action_class, authority_scope)
    THEN [verdict |-> "ESCALATE", reasons |-> <<"escalation_match">>]
    ELSE [verdict |-> "REFUSE", reasons |-> <<"default_refuse">>]

\* The verdict and the reasons list of the if/elif chain.
Resolve(ruleset, actor_id, action_class, authority_scope) ==
    IF _find_match(DictGetOr(ruleset, "denylist", <<>>), actor_id, action_class, authority_scope)
    THEN [verdict |-> "REFUSE", reasons |-> <<"denylist_match">>]
    ELSE IF _find_match(DictGetOr(ruleset, "allowlist", <<>>), actor_id, action_class, authority_scope)
    THEN [verdict |-> "ALLOW", reasons |-> <<"allowlist_match">>]
    ELSE IF _find_match(DictGetOr(ruleset, "escalation", <<>>), actor_id, action_class, authority_scope)
    THEN [verdict |-> "ESCALATE", reasons |-> <<"escalation_match">>]
    ELSE [verdict |-> "REFUSE", reasons |-> <<"default_refuse">>]

\* Mutant: the caller's timestamp goes into the hashed request object.
RequestObj_Stamped(commit_request) ==
    [actor_id |-> commit_request["actor_id"], action_class |-> commit_request["action_class"],
     context |-> commit_request["context"],
     authority_scope |-> commit_request["authority_scope"],
     invariant_hash |-> commit_request["invariant_hash"],
     timestamp_utc |-> DictGet(commit_request, "timestamp_utc")]

\* The hashable request evaluate() builds from the commit request.
RequestObj(commit_request) ==
    build_request_obj(commit_request["actor_id"], commit_request["action_class"],
                      commit_request["context"], commit_request["authority_scope"],
                      commit_request["invariant_hash"])

evaluate(commit_request, ruleset) ==
    LET actor_id == commit_request["actor_id"]
        action_class == commit_request["action_class"]
        authority_scope == commit_request["authority_scope"]
        request_obj == RequestObj(commit_request)
        request_hash == canonical_hash(request_obj)
        r == Resolve(ruleset, actor_id, action_class, authority_scope)
        reasons == sorted_strs(r.reasons)
        decision_obj == [request |-> request_obj, verdict |-> r.verdict, reasons |-> reasons]
    IN  [verdict |-> r.verdict,
         reasons |-> reasons,
         decision_hash |-> canonical_hash(decision_obj),
         request_hash |-> request_hash,
         artefact_version |-> ARTEFACT_VERSION]

\* ---------------------------------------------------- commit_gate/drift.py

\* The loop of build_authority_graph from entry i on: graph[actor] gets the
\* action appended unless it is there already.
RECURSIVE GraphFrom(_, _, _)
GraphFrom(allowlist, i, graph) ==
    IF i > Len(allowlist) THEN graph
    ELSE LET entry == allowlist[i]
             actor == DictGetOr(entry, "actor_id", "*")
             action == DictGetOr(entry, "action_class", "*")
             g1 == IF actor \notin DOMAIN graph
                   THEN [a \in DOMAIN graph \cup {actor} |->
                            IF a = actor THEN <<>> ELSE graph[a]]
                   ELSE graph
             g2 == IF \A j \in 1..Len(g1[actor]) : g1[actor][j] # action
                   THEN [g1 EXCEPT ![actor] = Append(@, action)]
                   ELSE g1
         IN  GraphFrom(allowlist, i + 1, g2)

\* Mutant: denylist entries produce edges too.
GraphEntries_WithDeny(ruleset) ==
    DictGetOr(ruleset, "allowlist", <<>>) \o DictGetOr(ruleset, "denylist", <<>>)

\* The entries that produce edges.
GraphEntries(ruleset) == DictGetOr(ruleset, "allowlist", <<>>)

build_authority_graph(ruleset) ==
    LET graph == GraphFrom(GraphEntries(ruleset), 1, EmptyDict)
    IN  [actor \in DOMAIN graph |-> sorted_strs(graph[actor])]

\* The artefact write_authority_graph writes.
write_authority_graph(graph, ruleset) ==
    [authority_graph |-> graph,
     ruleset_hash |-> canonical_hash(ruleset),
     artefact_version |-> "0.1"]

load_graph(data) == DictGetOr(data, "authority_graph", data)

\* Mutant: the comparison sees actors only, not their actions.
_edges_set_ActorsOnly(graph) == {<<actor, "*">> : actor \in DOMAIN graph}

_edges_set(graph) ==
    UNION {{<<actor, graph[actor][j]>> : j \in 1..Len(graph[actor])} : actor \in DOMAIN graph}

\* [list(e) for e in edges]
EdgeLists(edges) == [j \in 1..Len(edges) |-> edges[j]]

\* Mutant: the acknowledgement alone lets an expansion pass.
DriftPolicy_AckOnly(added, baseline_invariant_hash, current_invariant_hash, acknowledge_expansion) ==
    IF added = <<>> THEN [pass |-> TRUE, reason |-> "no_expansion"]
    ELSE IF acknowledge_expansion
    THEN [pass |-> TRUE, reason |-> "expansion_acknowledged_with_contract_revision"]
    ELSE IF baseline_invariant_hash = current_invariant_hash
    THEN [pass |-> FALSE, reason |-> "reachability_expansion_without_contract_revision"]
    ELSE [pass |-> FALSE, reason |-> "expansion_with_contract_revision_but_not_acknowledged"]

\* The branch detect_drift takes once `added` is known.
DriftPolicy(added, baseline_invariant_hash, current_invariant_hash, acknowledge_expansion) ==
    IF added = <<>> THEN [pass |-> TRUE, reason |-> "no_expansion"]
    ELSE IF baseline_invariant_hash = current_invariant_hash
    THEN [pass |-> FALSE, reason |-> "reachability_expansion_without_contract_revision"]
    ELSE IF acknowledge_expansion
    THEN [pass |-> TRUE, reason |-> "expansion_acknowledged_with_contract_revision"]
    ELSE [pass |-> FALSE, reason |-> "expansion_with_contract_revision_but_not_acknowledged"]

\* Mutant: removed_edges lists the whole baseline, not the difference.
detect_drift_RemovedIsBaseline(baseline_graph, current_graph, baseline_invariant_hash, current_invariant_hash, acknowledge_expansion) ==
    LET baseline_edges == _edges_set(baseline_graph)
        current_edges == _edges_set(current_graph)
        added == sorted_edges(current_edges \ baseline_edges)
        removed == sorted_edges(baseline_edges)
        p == DriftPolicy(added, baseline_invariant_hash, current_invariant_hash,
                         acknowledge_expansion)
    IN  [pass |-> p.pass,
         added_edges |-> EdgeLists(added),
         removed_edges |-> EdgeLists(removed),
         reason |-> p.reason]

detect_drift(baseline_graph, current_graph, baseline_invariant_hash, current_invariant_hash, acknowledge_expansion) ==
    LET baseline_edges == _edges_set(baseline_graph)
        current_edges == _edges_set(current_graph)
        added == sorted_edges(current_edges \ baseline_edges)
        removed == sorted_edges(baseline_edges \ current_edges)
        p == DriftPolicy(added, baseline_invariant_hash, current_invariant_hash,
                         acknowledge_expansion)
    IN  [pass |-> p.pass,
         added_edges |-> EdgeLists(added),
         removed_edges |-> EdgeLists(removed),
         reason |-> p.reason]

\* --------------------------------------------------- commit_gate/cli.py

\* Mutant: an omitted --current-invariant-hash is passed on as it is.
cmd_drift_NoDefault(baseline_json, ruleset, invariant_hash, current_invariant_hash, acknowledge_expansion) ==
    LET drift == detect_drift(load_graph(baseline_json), build_authority_graph(ruleset),
                              invariant_hash, current_invariant_hash, acknowledge_expansion)
    IN  [stdout |-> canonicalise(drift), drift |-> drift,
         exit |-> IF drift.pass THEN 0 ELSE 1]

\* cmd_drift, given the parsed JSON of --baseline and --ruleset and the
\* options; what it prints and its exit code.
cmd_drift(baseline_json, ruleset, invariant_hash, current_invariant_hash, acknowledge_expansion) ==
    LET current_graph == build_authority_graph(ruleset)
        baseline_graph == load_graph(baseline_json)
        drift == detect_drift(baseline_graph, current_graph, invariant_hash,
                              IF current_invariant_hash \in {None, ""}
                              THEN invariant_hash ELSE current_invariant_hash,
                              acknowledge_expansion)
    IN  [stdout |-> canonicalise(drift), drift |-> drift,
         exit |-> IF drift.pass THEN 0 ELSE 1]

\* ------------------------------------------------------- authority_gate.py

\* A Python object: its class, its name (an enum member's) and its value.
Obj(cls, name, value) == [cls |-> cls, name |-> name, value |-> value]

NoneObj == Obj("NoneType", "None", 0)

IsNone(x) == x.cls = "NoneType"

EvidenceNames == {"NONE", "USER", "OWNER", "ADMIN"}

\* class Evidence(IntEnum)
EvidenceValue(name) ==
    CASE name = "NONE" -> 0 [] name = "USER" -> 1 [] name = "OWNER" -> 2 [] name = "ADMIN" -> 3

\* Evidence[name], for a member's name
Evidence(name) == Obj("Evidence", name, EvidenceValue(name))

EvidenceMembers == {Evidence(n) : n \in EvidenceNames}

\* class Decision(IntEnum)
DecisionValue(name) == CASE name = "DENY" -> 0 [] name = "ALLOW" -> 1

Decision(name) == Obj("Decision", name, DecisionValue(name))

\* An exception leaving the call.
Raise(type, message) == [raised |-> type, message |-> message]

Raised(r) == "raised" \in DOMAIN r

\* AuthorityGate.__init__: the new object, or the TypeError.
AuthorityGate(required_level) ==
    IF required_level.cls # "Evidence"
    THEN Raise("TypeError", "required_level must be Evidence")
    ELSE [_required |-> required_level]

\* Mutant: the comparison is strict.
EvidenceGe_Strict(provided, required) == provided.value > required.value

\* IntEnum.__ge__
EvidenceGe(provided, required) == provided.value >= required.value

\* AuthorityGate.check without the isinstance test: an IntEnum compares with
\* a bare integer.
check_IntAccepted(self, provided) ==
    IF EvidenceGe(provided, self["_required"]) THEN Decision("ALLOW")
    ELSE Decision("DENY")

\* AuthorityGate.check
check(self, provided) ==
    IF provided.cls # "Evidence" THEN Raise("TypeError", "provided must be Evidence")
    ELSE IF EvidenceGe(provided, self["_required"]) THEN Decision("ALLOW")
    ELSE Decision("DENY")

\* ------------------------------------------------------------ mgtp/types.py

RiskClass == {"LOW", "MEDIUM", "HIGH", "CRITICAL"}

TransitionOutcome == {"APPROVED", "REFUSED", "SUPERVISED"}

\* DecisionRecord(...): the dataclass with its defaults filled in.
DecisionRecord(transition_id, outcome, authority_basis, risk_class, reason, actor_id, tenant_id, timestamp, gate_version, context_hash) ==
    [transition_id |-> transition_id, outcome |-> outcome,
     authority_basis |-> authority_basis, risk_class |-> risk_class, reason |-> reason,
     actor_id |-> actor_id, tenant_id |-> tenant_id, timestamp |-> timestamp,
     gate_version |-> gate_version, context_hash |-> context_hash]

\* The empty str "" where the other values are digests, which are tuples
\* here: the default context_hash, and the decision_id that goes with it.
EmptyStr == <<>>

_DECISION_NS == "6ba7b810-9dad-11d1-80b4-00c04fd430c8"

\* The dict DecisionRecord.canonical_bytes serialises.
CanonicalObj(self) ==
    [authority_basis |-> self.authority_basis, outcome |-> self.outcome,
     reason |-> self.reason, risk_class |-> self.risk_class,
     transition_id |-> self.transition_id]

\* DecisionRecord.canonical_bytes: json.dumps(obj, sort_keys=True, ...)
canonical_bytes(self) == <<"json", CanonicalObj(self)>>

to_canonical_json(self) == canonical_bytes(self)

\* DecisionRecord.canonical_hash: sha256 of canonical_bytes
DecisionRecord_canonical_hash(self) == <<"sha256", canonical_bytes(self)>>

content_hash(self) == DecisionRecord_canonical_hash(self)

\* DecisionRecord.decision_id: "" for an empty context_hash, else the uuid5
\* of it, taken as collision free.
decision_id(self) ==
    IF self.context_hash = EmptyStr THEN EmptyStr
    ELSE <<"uuid5", _DECISION_NS, self.context_hash>>

AuthorityContext(actor_id, authority_basis, tenant_id, provided_evidence) ==
    [actor_id |-> actor_id, authority_basis |-> authority_basis, tenant_id |-> tenant_id,
     provided_evidence |-> provided_evidence]

\* --------------------------------------------------------- mgtp/evaluate.py

\* Mutant: a DENY from the gate is not acted on.
GateOutcome_NoDeny(decision, request) ==
    IF request.irreversible /\ request.risk_class = "CRITICAL"
    THEN [reason |-> "critical_irreversible_supervised", outcome |-> "SUPERVISED"]
    ELSE [reason |-> "authority_sufficient", outcome |-> "APPROVED"]

\* Mutant: the override-token policy for HIGH and CRITICAL risk.
GateOutcome_OverrideToken(decision, request) ==
    IF decision = Decision("DENY")
    THEN [reason |-> "authority_insufficient", outcome |-> "REFUSED"]
    ELSE IF request.risk_class \in {"HIGH", "CRITICAL"}
    THEN IF request.override_token = None
         THEN [reason |-> "SUPERVISION_REQUIRED", outcome |-> "REFUSED"]
         ELSE [reason |-> "OVERRIDE_TOKEN_PRESENT", outcome |-> "SUPERVISED"]
    ELSE [reason |-> "authority_sufficient", outcome |-> "APPROVED"]

\* Mutant: every CRITICAL request is supervised, reversible or not.
GateOutcome_AnyCritical(decision, request) ==
    IF decision = Decision("DENY")
    THEN [reason |-> "authority_insufficient", outcome |-> "REFUSED"]
    ELSE IF request.risk_class = "CRITICAL"
    THEN [reason |-> "critical_irreversible_supervised", outcome |-> "SUPERVISED"]
    ELSE [reason |-> "authority_sufficient", outcome |-> "APPROVED"]

\* The outcome and reason of evaluate's if/elif chain, given the gate's decision.
GateOutcome(decision, request) ==
    IF decision = Decision("DENY")
    THEN [reason |-> "authority_insufficient", outcome |-> "REFUSED"]
    ELSE IF request.irreversible /\ request.risk_class = "CRITICAL"
    THEN [reason |-> "critical_irreversible_supervised", outcome |-> "SUPERVISED"]
    ELSE [reason |-> "authority_sufficient", outcome |-> "APPROVED"]

\* mgtp.evaluate.evaluate with the authority_basis lookup made before the
\* evidence test.
mgtp_evaluate_BasisFirst(request, context) ==
    IF context.authority_basis \notin EvidenceNames
    THEN Raise("ValueError", "Unknown authority_basis")
    ELSE IF IsNone(context.provided_evidence)
    THEN Raise("ValueError", "provided_evidence is required for MGTP evaluation")
    ELSE LET decision == check(AuthorityGate(Evidence(context.authority_basis)),
                               context.provided_evidence)
             o == GateOutcome(decision, request)
         IN  DecisionRecord(request.transition_id, o.outcome,
                            context.authority_basis, request.risk_class, o.reason,
                            "", "", "", "", EmptyStr)

\* mgtp.evaluate.evaluate
mgtp_evaluate(request, context) ==
    IF IsNone(context.provided_evidence)
    THEN Raise("ValueError", "provided_evidence is required for MGTP evaluation")
    ELSE IF context.authority_basis \notin EvidenceNames
    THEN Raise("ValueError", "Unknown authority_basis")
    ELSE LET required == Evidence(context.authority_basis)
             g == AuthorityGate(required)
             decision == check(g, context.provided_evidence)
         IN  IF Raised(decision) THEN decision
             ELSE LET o == GateOutcome(decision, request)
                  IN  DecisionRecord(request.transition_id, o.outcome,
                                     context.authority_basis, request.risk_class, o.reason,
                                     "", "", "", "", EmptyStr)

\* ---------------------------------------------- mgtp/evaluate_transition.py

\* sha256 of the sorted-key JSON of the payload, taken as collision free.
_context_hash(request, context) ==
    <<"sha256", <<"json",
        [actor_id |-> context.actor_id,
         authority_basis |-> context.authority_basis,
         irreversible |-> request.irreversible,
         override_token |-> request.override_token,
         resource_identifier |-> request.resource_identifier,
         risk_class |-> request.risk_class,
         tenant_id |-> context.tenant_id,
         timestamp |-> request.timestamp,
         transition_id |-> request.transition_id,
         trust_boundary_crossed |-> request.trust_boundary_crossed]>> >>

\* `request.transition_id not in registry`
NotRegistered(request, registry) == request.transition_id \notin DOMAIN registry

\* Mutant: the reason code of the other policy variant.
RefuseUnregistered_Undeclared(request, context, ctx_hash) ==
    DecisionRecord(request.transition_id, "REFUSED", context.authority_basis,
                   request.risk_class, "UNDECLARED_TRANSITION",
                   context.actor_id, context.tenant_id, request.timestamp, "", ctx_hash)

\* Mutant: the refusal carries none of the audit fields.
RefuseUnregistered_NoAudit(request, context, ctx_hash) ==
    DecisionRecord(request.transition_id, "REFUSED", context.authority_basis,
                   request.risk_class, "transition_not_registered",
                   "", "", "", "", EmptyStr)

\* The record returned for a transition the registry does not declare.
RefuseUnregistered(request, context, ctx_hash) ==
    DecisionRecord(request.transition_id, "REFUSED", context.authority_basis,
                   request.risk_class, "transition_not_registered",
                   context.actor_id, context.tenant_id, request.timestamp, "", ctx_hash)

\* Mutant: the actor's own level is taken as the required level too.
EvalContext_ActorAsRequired(context, entry) ==
    AuthorityContext(context.actor_id, context.authority_basis, context.tenant_id,
                     Evidence(context.authority_basis))

\* The context handed to evaluate(): authority_basis is the level the
\* registry requires, provided_evidence the level the actor's basis names.
EvalContext(context, entry) ==
    AuthorityContext(context.actor_id, entry["required_authority"], context.tenant_id,
                     Evidence(context.authority_basis))

\* Mutant: the gate decision is taken with the entry's risk_class and
\* irreversible in place of the request's.
evaluate_transition_EntryFlags(request, context, registry) ==
    LET ctx_hash == _context_hash(request, context)
    IN  IF NotRegistered(request, registry)
        THEN RefuseUnregistered(request, context, ctx_hash)
        ELSE LET entry == registry[request.transition_id]
                 classified == [request EXCEPT !.risk_class = entry["risk_class"],
                                               !.irreversible = entry["irreversible"]]
             IN  IF context.authority_basis \notin EvidenceNames
                 THEN Raise("KeyError", context.authority_basis)
                 ELSE LET gate_result == mgtp_evaluate(classified, EvalContext(context, entry))
                      IN  IF Raised(gate_result) THEN gate_result
                          ELSE DecisionRecord(gate_result.transition_id, gate_result.outcome,
                                              context.authority_basis, request.risk_class,
                                              gate_result.reason, context.actor_id,
                                              context.tenant_id, request.timestamp,
                                              DictGetOr(entry, "gate_version", ""), ctx_hash)

evaluate_transition(request, context, registry) ==
    LET ctx_hash == _context_hash(request, context)
    IN  IF NotRegistered(request, registry)
        THEN RefuseUnregistered(request, context, ctx_hash)
        ELSE LET entry == registry[request.transition_id]
                 gate_version == DictGetOr(entry, "gate_version", "")
             IN  IF context.authority_basis \notin EvidenceNames
                 THEN Raise("KeyError", context.authority_basis)
                 ELSE LET eval_context == EvalContext(context, entry)
                          gate_result == mgtp_evaluate(request, eval_context)
                      IN  IF Raised(gate_result) THEN gate_result
                          ELSE DecisionRecord(gate_result.transition_id, gate_result.outcome,
                                              context.authority_basis, gate_result.risk_class,
                                              gate_result.reason, context.actor_id,
                                              context.tenant_id, request.timestamp,
                                              gate_version, ctx_hash)

\* --------------------------------------------------- mgtp/decision_record.py

\* The values of the Verdict enum that decision_record.py imports.
Verdict == {"ALLOW", "REFUSE", "SUPERVISED"}

OUTSIDE_WINDOW_REASON == "outside_authority_window"

EVIDENCE_MISSING_REASON == "evidence_missing"

\* The timestamp strings of the model, with the instant each denotes in
\* seconds from 2026-02-28T00:00:00Z. The "+01:00" string is another text
\* of that same instant.
Instants ==
    [ts \in {"2026-02-27T23:59:59Z", "2026-02-28T00:00:00Z", "2026-02-28T01:00:00+01:00",
             "2026-02-28T01:00:00Z", "2026-02-28T12:00:00Z", "2026-02-28T23:59:59Z",
             "2026-03-01T00:00:00Z"} |->
        CASE ts = "2026-02-27T23:59:59Z" -> 0 - 1
          [] ts = "2026-02-28T00:00:00Z" -> 0
          [] ts = "2026-02-28T01:00:00+01:00" -> 0
          [] ts = "2026-02-28T01:00:00Z" -> 3600
          [] ts = "2026-02-28T12:00:00Z" -> 43200
          [] ts = "2026-02-28T23:59:59Z" -> 86399
          [] ts = "2026-03-01T00:00:00Z" -> 86400]

\* datetime.fromisoformat(ts.replace("Z", "+00:00")): the instant of an
\* RFC3339 string, whatever offset it is written with.
_parse_rfc3339(ts) == Instants[ts]

\* A Python tuple, and the dataclass EvidenceRef.
PyTuple(items) == [cls |-> "tuple", items |-> items]

EvidenceRef(ref_id, description) == [ref_id |-> ref_id, description |-> description]

\* sorted(list, key=lambda e: e.ref_id): stable, so an element goes after
\* every element whose ref_id is not greater.
InsertByRefId(x, s) ==
    SelectSeq(s, LAMBDA y : ~StrLt(x.ref_id, y.ref_id)) \o <<x>>
        \o SelectSeq(s, LAMBDA y : StrLt(x.ref_id, y.ref_id))

RECURSIVE sorted_by_ref_id(_)
sorted_by_ref_id(seq) ==
    IF seq = <<>> THEN <<>>
    ELSE InsertByRefId(seq[Len(seq)], sorted_by_ref_id(SubSeq(seq, 1, Len(seq) - 1)))

\* `x in codes`
In(x, codes) == \E i \in 1..Len(codes) : codes[i] = x

\* The dataclass DecisionRecord of decision_record.py.
decision_record_DecisionRecord(record_id, decision_time, authority_window_start, authority_window_end, verdict, reason_codes, provided_evidence) ==
    [record_id |-> record_id, decision_time |-> decision_time,
     authority_window_start |-> authority_window_start,
     authority_window_end |-> authority_window_end, verdict |-> verdict,
     reason_codes |-> reason_codes, provided_evidence |-> provided_evidence]

\* Mutant: a decision_time equal to a window bound is outside.
InsideWindow_Exclusive(dt, window_start, window_end) == window_start < dt /\ dt < window_end

\* `window_start <= dt <= window_end`
InsideWindow(dt, window_start, window_end) == window_start <= dt /\ dt <= window_end

\* Mutant: the window reason replaces the caller's reasons.
WindowStep_Replace(vc, inside) ==
    IF ~inside THEN [verdict |-> "REFUSE", codes |-> <<OUTSIDE_WINDOW_REASON>>] ELSE vc

\* Enforcement 1: outside the window the verdict becomes REFUSE and the
\* window reason is appended unless it is among the codes already.
WindowStep(vc, inside) ==
    IF ~inside
    THEN [verdict |-> "REFUSE",
          codes |-> IF In(OUTSIDE_WINDOW_REASON, vc.codes) THEN vc.codes
                    ELSE Append(vc.codes, OUTSIDE_WINDOW_REASON)]
    ELSE vc

\* Mutant: absent evidence is not acted on.
EvidenceStep_Skip(vc, provided_evidence) == vc

\* Enforcement 2: a verdict that is ALLOW at this point, with evidence None,
\* becomes REFUSE and the evidence reason is appended unless present already.
EvidenceStep(vc, provided_evidence) ==
    IF vc.verdict = "ALLOW" /\ IsNone(provided_evidence)
    THEN [verdict |-> "REFUSE",
          codes |-> IF In(EVIDENCE_MISSING_REASON, vc.codes) THEN vc.codes
                    ELSE Append(vc.codes, EVIDENCE_MISSING_REASON)]
    ELSE vc

\* mgtp.decision_record.evaluate
decision_record_evaluate(record_id, decision_time, authority_window_start, authority_window_end, requested_verdict, reason_codes, provided_evidence) ==
    LET dt == _parse_rfc3339(decision_time)
        window_start == _parse_rfc3339(authority_window_start)
        window_end == _parse_rfc3339(authority_window_end)
        vc == EvidenceStep(WindowStep([verdict |-> requested_verdict, codes |-> reason_codes],
                                      InsideWindow(dt, window_start, window_end)),
                           provided_evidence)
        evidence_tuple == IF IsNone(provided_evidence) THEN NoneObj
                          ELSE PyTuple(sorted_by_ref_id(provided_evidence.items))
    IN  decision_record_DecisionRecord(record_id, decision_time, authority_window_start,
                                       authority_window_end, vc.verdict,
                                       sorted_strs(vc.codes), evidence_tuple)

\* -------------------------------------------------------- mgtp/evaluator.py

AUTHORITY_WINDOW_SECONDS == 3600

\* The timestamps that strptime accepts with "%Y-%m-%dT%H:%M:%SZ".
UtcZ == DOMAIN Instants \ {"2026-02-28T01:00:00+01:00"}

_parse_utc(ts) ==
    IF ts \in UtcZ THEN Instants[ts]
    ELSE Raise("ValueError", "Timestamp must be ISO-8601 UTC (YYYY-MM-DDTHH:MM:SSZ)")

\* Mutant: a decision before the request is not excluded.
WithinDelta_NoLowerBound(delta, window_seconds) == delta <= window_seconds

\* `0 <= delta <= window_seconds`
WithinDelta(delta, window_seconds) == 0 <= delta /\ delta <= window_seconds

\* For timestamps that parse; evaluate() leaves with the ValueError otherwise.
_within_authority_window(request_ts, decision_ts, window_seconds) ==
    WithinDelta(_parse_utc(decision_ts) - _parse_utc(request_ts), window_seconds)

\* The record evaluator.py constructs: DecisionRecord(transition_id=,
\* verdict=, reasons=, decision_time=, authority_basis=).
evaluator_DecisionRecord(transition_id, verdict, reasons, decision_time, authority_basis) ==
    [transition_id |-> transition_id, verdict |-> verdict, reasons |-> reasons,
     decision_time |-> decision_time, authority_basis |-> authority_basis]

\* The verdict and reason of the guards that follow the window guard.
\* Mutant: the authority_basis is resolved before the evidence is looked at.
EvidenceGuards_BasisFirst(request, context, provided_evidence) ==
    IF context.authority_basis \notin EvidenceNames
    THEN [verdict |-> "REFUSED", reason |-> "unknown_authority_basis"]
    ELSE IF IsNone(provided_evidence)
    THEN [verdict |-> "REFUSED", reason |-> "missing_evidence"]
    ELSE IF ~EvidenceGe(provided_evidence, Evidence(context.authority_basis))
    THEN [verdict |-> "REFUSED", reason |-> "insufficient_evidence"]
    ELSE IF request.irreversible \/ request.trust_boundary_crossed
    THEN [verdict |-> "SUPERVISED", reason |-> "irreversible_or_trust_boundary"]
    ELSE [verdict |-> "APPROVED", reason |-> "evidence_sufficient"]

EvidenceGuards(request, context, provided_evidence) ==
    IF IsNone(provided_evidence)
    THEN [verdict |-> "REFUSED", reason |-> "missing_evidence"]
    ELSE IF context.authority_basis \notin EvidenceNames
    THEN [verdict |-> "REFUSED", reason |-> "unknown_authority_basis"]
    ELSE LET g == AuthorityGate(Evidence(context.authority_basis))
             gate_decision == check(g, provided_evidence)
         IN  IF Raised(gate_decision) THEN gate_decision
             ELSE IF gate_decision = Decision("DENY")
             THEN [verdict |-> "REFUSED", reason |-> "insufficient_evidence"]
             ELSE IF request.irreversible \/ request.trust_boundary_crossed
             THEN [verdict |-> "SUPERVISED", reason |-> "irreversible_or_trust_boundary"]
             ELSE [verdict |-> "APPROVED", reason |-> "evidence_sufficient"]

\* mgtp.evaluator.evaluate
evaluator_evaluate(request, context, provided_evidence, decision_time, authority_window_seconds) ==
    IF request.timestamp \notin UtcZ THEN _parse_utc(request.timestamp)
    ELSE IF decision_time \notin UtcZ THEN _parse_utc(decision_time)
    ELSE IF ~_within_authority_window(request.timestamp, decision_time,
                                      authority_window_seconds)
    THEN evaluator_DecisionRecord(request.transition_id, "REFUSED",
                                  <<"decision_time_outside_authority_window">>,
                                  decision_time, context.authority_basis)
    ELSE LET g == EvidenceGuards(request, context, provided_evidence)
         IN  IF Raised(g) THEN g
             ELSE evaluator_DecisionRecord(request.transition_id, g.verdict, <<g.reason>>,
                                           decision_time, context.authority_basis)

\* ---------------------------------------------------------- stop_machine.py

\* class State(Enum)
State == {"GREEN", "AMBER", "RED"}

_FORWARD == [GREEN |-> "AMBER", AMBER |-> "RED"]

_ORDER == [GREEN |-> 0, AMBER |-> 1, RED |-> 2]

\* StopMachine(): __init__
StopMachine == [_state |-> "GREEN"]

\* What a method leaves behind: the object and what it returned or raised.
Effect(self, returned) == [self |-> self, result |-> returned]

\* Mutant: advance goes to RED from wherever it is.
advance_ToRed(self) ==
    IF self._state = "RED"
    THEN Effect(self, Raise("ValueError", "Cannot advance from RED: terminal state."))
    ELSE Effect([self EXCEPT !._state = "RED"], NoneObj)

\* StopMachine.advance
advance(self) ==
    IF self._state = "RED"
    THEN Effect(self, Raise("ValueError", "Cannot advance from RED: terminal state."))
    ELSE Effect([self EXCEPT !._state = _FORWARD[self._state]], NoneObj)

\* Mutant: no order test, any target is taken.
transition_to_Unordered(self, target) ==
    Effect([self EXCEPT !._state = target], NoneObj)

\* StopMachine.transition_to
transition_to(self, target) ==
    IF _ORDER[target] <= _ORDER[self._state]
    THEN Effect(self, Raise("ValueError", "backwards or same-state transitions are forbidden."))
    ELSE Effect([self EXCEPT !._state = target], NoneObj)

\* Mutant: reset has no terminal test.
reset_FromRed(self) == Effect([self EXCEPT !._state = "GREEN"], NoneObj)

\* StopMachine.reset
reset(self) ==
    IF self._state = "RED"
    THEN Effect(self, Raise("ValueError", "Cannot reset from RED: terminal state."))
    ELSE Effect([self EXCEPT !._state = "GREEN"], NoneObj)

\* ------------------------------------------------------------ MGTP inputs

\* What a caller may hand the gate: an Evidence member, or a bare integer.
GateArguments == EvidenceMembers \cup {Obj("int", "1", 1), Obj("int", "2", 2)}

TransitionRequests ==
    {[transition_id |-> t, risk_class |-> rc, irreversible |-> irr,
      resource_identifier |-> "res-1", trust_boundary_crossed |-> FALSE,
      override_token |-> tok, timestamp |-> "2025-06-01T12:00:00Z"] :
        t \in {"TOOL_CALL_HTTP", "NO_SUCH_TRANSITION"}, rc \in RiskClass,
        irr \in BOOLEAN, tok \in {None, "tok"}}

\* authority_basis strings: the four Evidence names and one that is none.
BasisNames == EvidenceNames \cup {"ROOT"}

\* Registries: empty, or one declared transition.
Registries ==
    {EmptyDict} \cup
    {[TOOL_CALL_HTTP |-> [id |-> "TOOL_CALL_HTTP", irreversible |-> irr, risk_class |-> rc,
                          required_authority |-> ra, gate_version |-> "v0.2"]] :
        irr \in BOOLEAN, rc \in RiskClass, ra \in BasisNames}

\* ------------------------------------------------ decision record inputs

MaxReasonLen == 2

\* Reason codes a caller may pass, the two enforcement reasons among them.
ReasonPool == {"allowlist_match", OUTSIDE_WINDOW_REASON, EVIDENCE_MISSING_REASON}

\* Verdict strings a caller may pass: the Verdict values, and the
\* TransitionOutcome value "APPROVED", which the str parameter also admits.
RequestedVerdicts == Verdict \cup {"APPROVED"}

DecisionTimes ==
    {"2026-02-27T23:59:59Z", "2026-02-28T00:00:00Z", "2026-02-28T12:00:00Z",
     "2026-02-28T23:59:59Z", "2026-03-01T00:00:00Z"}

WindowStarts == {"2026-02-28T00:00:00Z", "2026-02-28T01:00:00+01:00"}

\* The second end precedes every start: an empty window.
WindowEnds == {"2026-02-28T23:59:59Z", "2026-02-27T23:59:59Z"}

\* provided_evidence: None, or a list of EvidenceRef in the caller's order.
EvidenceLists ==
    {NoneObj, PyList(<<>>), PyList(<<EvidenceRef("ev-001", "owner confirmed")>>),
     PyList(<<EvidenceRef("ev-002", "ticket"), EvidenceRef("ev-001", "owner confirmed")>>)}

\* Requests for the evaluator: the second timestamp is not in the "Z" form.
EvaluatorRequests ==
    {[transition_id |-> "txn-test-001", risk_class |-> rc, irreversible |-> irr,
      resource_identifier |-> "res-001", trust_boundary_crossed |-> tbc,
      override_token |-> None, timestamp |-> ts] :
        rc \in {"LOW", "CRITICAL"}, irr \in BOOLEAN, tbc \in BOOLEAN,
        ts \in {"2026-02-28T00:00:00Z", "2026-02-28T01:00:00+01:00"}}

\* authority_window_seconds: the default and half a day.
WindowSeconds == {AUTHORITY_WINDOW_SECONDS, 43200}

\* ------------------------------------------------------- the codec's inputs

JsonLeaves == {PyStr("x"), PyStr("y")}

\* Lists, two of them with the same elements in a different order.
JsonLists ==
    {PyList(<<>>), PyList(<<PyStr("x")>>), PyList(<<PyStr("x"), PyStr("y")>>),
     PyList(<<PyStr("y"), PyStr("x")>>)}

\* Every insertion order of a dict with keys among "a" and "z".
OrderedDicts(V) ==
    {PyDict(<<>>)}
    \cup {PyDict(<<<<k, v>>>>) : k \in {"a", "z"}, v \in V}
    \cup {PyDict(<<<<"a", v>>, <<"z", w>>>>) : v \in V, w \in V}
    \cup {PyDict(<<<<"z", w>>, <<"a", v>>>>) : v \in V, w \in V}

\* Values of up to two nesting levels.
JsonValues ==
    JsonLeaves \cup JsonLists
    \cup OrderedDicts(JsonLeaves \cup JsonLists
                      \cup {d \in OrderedDicts(JsonLeaves) : Len(d.items) # 1})

\* ------------------------------------------------------ the commit gate's inputs

RequestActors == {"ricky", "sam"}
RequestActions == {"FILE", "DEPLOY"}

\* authority_scope of a request: "env" may be absent, a string or null;
\* "repo" is a key no rule constrains.
RequestScopes ==
    {s \in Dicts({"env", "repo"}, {"prod", "dev", None, "x"}) :
        /\ ("env" \in DOMAIN s => s["env"] \in {"prod", "dev", None})
        /\ ("repo" \in DOMAIN s => s["repo"] = "x")}

CommitRequests ==
    {[actor_id |-> a, action_class |-> c, context |-> [description |-> "test commit"],
      authority_scope |-> s, invariant_hash |-> "abc123"] :
        a \in RequestActors, c \in RequestActions, s \in RequestScopes}

\* Caller-supplied timestamps.
Timestamps == {"2026-01-01T00:00:00Z", "2026-06-01T12:00:00Z"}

\* The commit request with "timestamp_utc" set.
Stamp(req, ts) == [k \in DOMAIN req \cup {"timestamp_utc"} |->
                      IF k = "timestamp_utc" THEN ts ELSE req[k]]

\* Commit requests without the optional timestamp_utc, and those for the
\* production scope with it.
StampedRequests ==
    CommitRequests \cup
    {Stamp(req, ts) : req \in {r \in CommitRequests : r["authority_scope"] = [env |-> "prod"]},
                      ts \in Timestamps}

\* scope_match of a rule, as json.load gives it: a value may be null.
RuleScopes == Dicts({"env"}, {"prod", None})

\* A rule dict with the keys that are present.
MkRule(fields, a, c, s) ==
    [k \in fields |-> CASE k = "actor_id" -> a
                        [] k = "action_class" -> c
                        [] OTHER -> s]

Rules ==
    {MkRule(fields, "ricky", "FILE", s) :
        fields \in SUBSET {"actor_id", "action_class", "scope_match"}, s \in RuleScopes}

\* The rules the three lists of a ruleset are drawn from.
RulePool ==
    { [actor_id |-> "ricky", action_class |-> "FILE", scope_match |-> EmptyDict],
      [actor_id |-> "ricky", action_class |-> "DEPLOY", scope_match |-> [env |-> "prod"]],
      [scope_match |-> EmptyDict],
      [action_class |-> "FILE", scope_match |-> [env |-> None]] }

\* A ruleset dict: each list is missing or a list of rules.
MkRuleset(lists, al, dl, el) ==
    [k \in lists |-> CASE k = "allowlist" -> al
                       [] k = "denylist" -> dl
                       [] OTHER -> el]

ListNames == {"allowlist", "denylist", "escalation"}

Rulesets ==
    {MkRuleset(lists, al, dl, el) :
        lists \in SUBSET ListNames,
        al \in SeqUpTo(RulePool, MaxListLen),
        dl \in SeqUpTo(RulePool, MaxListLen),
        el \in SeqUpTo(RulePool, MaxListLen)}

\* Rulesets handed to build_authority_graph.
GraphRulesets ==
    {MkRuleset(lists, al, dl, el) :
        lists \in SUBSET ListNames,
        al \in SeqUpTo(RulePool, MaxAllowLen),
        dl \in SeqUpTo(RulePool, 1),
        el \in SeqUpTo(RulePool, 1)}

GraphActors == {"*", "ricky"}
GraphActions == {"*", "DEPLOY", "FILE"}

RECURSIVE SortedList(_)
\* The sorted list of a set of strings
SortedList(S) ==
    IF S = {} THEN <<>>
    ELSE LET m == CHOOSE x \in S : \A y \in S : ~StrLt(y, x)
         IN  <<m>> \o SortedList(S \ {m})

\* Authority graphs as an artefact file holds them: each actor's actions
\* sorted and free of duplicates.
Graphs == Dicts(GraphActors, {SortedList(S) : S \in SUBSET GraphActions})

InvariantHashes == {"contract_v1_hash", "contract_v2_hash"}

\* The baseline and the current ruleset of a drift run.
DriftRulesets ==
    {[allowlist |-> al, denylist |-> dl, escalation |-> el] :
        al \in SeqUpTo(RulePool, MaxDriftLen),
        dl \in {<<>>, <<[scope_match |-> EmptyDict]>>,
                <<[actor_id |-> "ricky", action_class |-> "FILE", scope_match |-> EmptyDict]>>},
        el \in {<<>>, <<[scope_match |-> EmptyDict]>>}}

\* ------------------------------------------------- the stop machines held

\* The names under which the caller holds its StopMachine objects.
MachineIds == 1..MaxMachines

\* No object under that name yet.
NotConstructed == [_state |-> "<unset>"]

\* ------------------------------------------------------------------ actions

\* No AuthorityGate has been constructed; else gate = <<the object>>.
NoGate == <<>>

Init ==
    /\ op = "idle"
    /\ args = <<>>
    /\ result = <<>>
    /\ gate = NoGate
    /\ machines = [m \in MachineIds |-> NotConstructed]

\* The caller takes the returned value; the next call may start.
Return ==
    /\ op # "idle"
    /\ op' = "idle"
    /\ args' = <<>>
    /\ result' = <<>>
    /\ UNCHANGED <<gate, machines>>

FindMatchCall ==
    /\ op = "idle"
    /\ \E rules_list \in SeqUpTo(Rules, MaxMatchRules), req \in CommitRequests :
        /\ op' = "_find_match"
        /\ args' = [rules_list |-> rules_list, request |-> req]
        /\ result' = _find_match(rules_list, req["actor_id"], req["action_class"],
                                 req["authority_scope"])
    /\ UNCHANGED <<gate, machines>>

EvaluateCall ==
    /\ op = "idle"
    /\ \E req \in StampedRequests, ruleset \in Rulesets :
        /\ op' = "evaluate"
        /\ args' = [request |-> req, ruleset |-> ruleset]
        /\ result' = evaluate(req, ruleset)
    /\ UNCHANGED <<gate, machines>>

BuildGraphCall ==
    /\ op = "idle"
    /\ \E ruleset \in GraphRulesets :
        /\ op' = "build_authority_graph"
        /\ args' = [ruleset |-> ruleset]
        /\ result' = build_authority_graph(ruleset)
    /\ UNCHANGED <<gate, machines>>

DetectDriftCall ==
    /\ op = "idle"
    /\ \E baseline_graph \in Graphs, current_graph \in Graphs,
          bh \in InvariantHashes, ch \in InvariantHashes, ack \in BOOLEAN :
        /\ op' = "detect_drift"
        /\ args' = [baseline_graph |-> baseline_graph, current_graph |-> current_graph,
                    baseline_invariant_hash |-> bh, current_invariant_hash |-> ch,
                    acknowledge_expansion |-> ack]
        /\ result' = detect_drift(baseline_graph, current_graph, bh, ch, ack)
    /\ UNCHANGED <<gate, machines>>

\* The drift command run on a ruleset against the graph artefact that an
\* earlier run wrote for the baseline ruleset.
CmdDriftCall ==
    /\ op = "idle"
    /\ \E baseline_ruleset \in DriftRulesets, ruleset \in DriftRulesets,
          ch \in InvariantHashes \cup {None}, ack \in BOOLEAN :
        LET artefact == write_authority_graph(build_authority_graph(baseline_ruleset),
                                              baseline_ruleset)
        IN  /\ op' = "cmd_drift"
            /\ args' = [baseline_ruleset |-> baseline_ruleset, baseline |-> artefact,
                        ruleset |-> ruleset, invariant_hash |-> "contract_v1_hash",
                        current_invariant_hash |-> ch, acknowledge_expansion |-> ack]
            /\ result' = cmd_drift(artefact, ruleset, "contract_v1_hash", ch, ack)
    /\ UNCHANGED <<gate, machines>>

\* gate = AuthorityGate(required_level)
GateConstruct ==
    /\ op = "idle"
    /\ \E required_level \in GateArguments :
        LET g == AuthorityGate(required_level)
        IN  /\ op' = "AuthorityGate"
            /\ args' = [required_level |-> required_level]
            /\ result' = IF Raised(g) THEN g ELSE [constructed |-> TRUE]
            /\ gate' = IF Raised(g) THEN gate ELSE <<g>>
    /\ UNCHANGED machines

\* gate.check(provided)
GateCheck ==
    /\ op = "idle"
    /\ gate # NoGate
    /\ \E provided \in GateArguments :
        /\ op' = "check"
        /\ args' = [provided |-> provided]
        /\ result' = check(gate[1], provided)
    /\ UNCHANGED <<gate, machines>>

MgtpEvaluateCall ==
    /\ op = "idle"
    /\ \E request \in TransitionRequests, basis \in BasisNames,
          provided \in EvidenceMembers \cup {NoneObj} :
        LET context == AuthorityContext("alice", basis, "t1", provided)
        IN  /\ op' = "mgtp.evaluate"
            /\ args' = [request |-> request, context |-> context]
            /\ result' = mgtp_evaluate(request, context)
    /\ UNCHANGED <<gate, machines>>

\* Mutant: an AuthorityGate constructed earlier is used again, in place of
\* one made for the registry's required level.
EvaluateTransitionCall_ReusedGate ==
    /\ op = "idle"
    /\ \E request \in TransitionRequests, basis \in BasisNames, registry \in Registries :
        LET context == AuthorityContext("alice", basis, "t1", NoneObj)
            held == IF gate = NoGate THEN registry
                    ELSE [t \in DOMAIN registry |->
                            [registry[t] EXCEPT !.required_authority = gate[1]["_required"].name]]
        IN  /\ op' = "evaluate_transition"
            /\ args' = [request |-> request, context |-> context, registry |-> registry]
            /\ result' = evaluate_transition(request, context, held)
    /\ UNCHANGED <<gate, machines>>

EvaluateTransitionCall ==
    /\ op = "idle"
    /\ \E request \in TransitionRequests, basis \in BasisNames, registry \in Registries :
        LET context == AuthorityContext("alice", basis, "t1", NoneObj)
        IN  /\ op' = "evaluate_transition"
            /\ args' = [request |-> request, context |-> context, registry |-> registry]
            /\ result' = evaluate_transition(request, context, registry)
    /\ UNCHANGED <<gate, machines>>

RecordEvaluateCall ==
    /\ op = "idle"
    /\ \E decision_time \in DecisionTimes, ws \in WindowStarts, we \in WindowEnds,
          requested_verdict \in RequestedVerdicts,
          reason_codes \in SeqUpTo(ReasonPool, MaxReasonLen),
          provided_evidence \in EvidenceLists :
        /\ op' = "decision_record.evaluate"
        /\ args' = [decision_time |-> decision_time, authority_window_start |-> ws,
                    authority_window_end |-> we, requested_verdict |-> requested_verdict,
                    reason_codes |-> reason_codes, provided_evidence |-> provided_evidence]
        /\ result' = decision_record_evaluate("rec-001", decision_time, ws, we,
                                               requested_verdict, reason_codes,
                                               provided_evidence)
    /\ UNCHANGED <<gate, machines>>

EvaluatorEvaluateCall ==
    /\ op = "idle"
    /\ \E request \in EvaluatorRequests, basis \in BasisNames,
          provided_evidence \in EvidenceMembers \cup {NoneObj},
          decision_time \in DOMAIN Instants, window \in WindowSeconds :
        LET context == AuthorityContext("actor-001", basis, "tenant-001", NoneObj)
        IN  /\ op' = "evaluator.evaluate"
            /\ args' = [request |-> request, context |-> context,
                        provided_evidence |-> provided_evidence,
                        decision_time |-> decision_time,
                        authority_window_seconds |-> window]
            /\ result' = evaluator_evaluate(request, context, provided_evidence,
                                            decision_time, window)
    /\ UNCHANGED <<gate, machines>>

\* commit_gate evaluate as the determinism tests call it: the sample
\* requests against a three-list ruleset.
ReplayEvaluateCall ==
    /\ op = "idle"
    /\ \E req \in StampedRequests, ruleset \in DriftRulesets :
        /\ op' = "evaluate"
        /\ args' = [request |-> req, ruleset |-> ruleset]
        /\ result' = evaluate(req, ruleset)
    /\ UNCHANGED <<gate, machines>>

CanonicaliseCall ==
    /\ op = "idle"
    /\ \E obj \in JsonValues :
        /\ op' = "canonicalise"
        /\ args' = [obj |-> obj]
        /\ result' = canonicalise_bytes(obj)
    /\ UNCHANGED <<gate, machines>>

CanonicalHashCall ==
    /\ op = "idle"
    /\ \E obj \in JsonValues :
        /\ op' = "canonical_hash"
        /\ args' = [obj |-> obj]
        /\ result' = canonical_hash_bytes(obj)
    /\ UNCHANGED <<gate, machines>>

Next == FindMatchCall \/ EvaluateCall \/ Return

NextDrift == BuildGraphCall \/ DetectDriftCall \/ CmdDriftCall \/ Return

Spec == Init /\ [][Next]_vars

SpecDrift == Init /\ [][NextDrift]_vars

NextMgtp == GateConstruct \/ GateCheck \/ MgtpEvaluateCall \/ EvaluateTransitionCall \/ Return

SpecMgtp == Init /\ [][NextMgtp]_vars

NextReplay ==
    GateConstruct \/ EvaluateTransitionCall \/ ReplayEvaluateCall \/ Return

SpecReplay == Init /\ [][NextReplay]_vars

NextCodec == CanonicaliseCall \/ CanonicalHashCall \/ Return

SpecCodec == Init /\ [][NextCodec]_vars

NextRecord == RecordEvaluateCall \/ EvaluatorEvaluateCall \/ Return

SpecRecord == Init /\ [][NextRecord]_vars

\* ================================================================== claims

\* ---- stop machines

Constructed(m) == machines[m] # NotConstructed

\* m = StopMachine()
StopMachineConstruct ==
    /\ op = "idle"
    /\ \E m \in MachineIds :
        /\ ~Constructed(m)
        /\ op' = "StopMachine"
        /\ args' = [machine |-> m]
        /\ result' = [constructed |-> TRUE]
        /\ machines' = [machines EXCEPT ![m] = StopMachine]
    /\ UNCHANGED gate

\* m.advance(); args.self is the receiver as it was when called.
AdvanceCall ==
    /\ op = "idle"
    /\ \E m \in MachineIds :
        /\ Constructed(m)
        /\ op' = "advance"
        /\ args' = [machine |-> m, self |-> machines[m]]
        /\ result' = advance(machines[m]).result
        /\ machines' = [machines EXCEPT ![m] = advance(machines[m]).self]
    /\ UNCHANGED gate

\* m.transition_to(target)
TransitionToCall ==
    /\ op = "idle"
    /\ \E m \in MachineIds, target \in State :
        /\ Constructed(m)
        /\ op' = "transition_to"
        /\ args' = [machine |-> m, self |-> machines[m], target |-> target]
        /\ result' = transition_to(machines[m], target).result
        /\ machines' = [machines EXCEPT ![m] = transition_to(machines[m], target).self]
    /\ UNCHANGED gate

\* m.reset()
ResetCall ==
    /\ op = "idle"
    /\ \E m \in MachineIds :
        /\ Constructed(m)
        /\ op' = "reset"
        /\ args' = [machine |-> m, self |-> machines[m]]
        /\ result' = reset(machines[m]).result
        /\ machines' = [machines EXCEPT ![m] = reset(machines[m]).self]
    /\ UNCHANGED gate

NextStop == StopMachineConstruct \/ AdvanceCall \/ TransitionToCall \/ ResetCall \/ Return

SpecStop == Init /\ [][NextStop]_vars

\* ------------------------------------------------------------------ C1

\* Some rule of the list reaches `return True` for the request.
AnyRuleHits(rules_list, req) ==
    \E i \in 1..Len(rules_list) :
        RuleHits(rules_list[i], req["actor_id"], req["action_class"], req["authority_scope"])

DenyHits == AnyRuleHits(DictGetOr(args.ruleset, "denylist", <<>>), args.request)
AllowHits == AnyRuleHits(DictGetOr(args.ruleset, "allowlist", <<>>), args.request)
EscalationHits == AnyRuleHits(DictGetOr(args.ruleset, "escalation", <<>>), args.request)

\* C1: evaluate resolves by strict priority, for every request and every
\* ruleset (lists missing or empty included): REFUSE/denylist_match if a
\* denylist rule matches; else ALLOW/allowlist_match if an allowlist rule
\* matches; else ESCALATE/escalation_match if an escalation rule matches;
\* else REFUSE/default_refuse.  A rule "matches" as _find_match decides it.
C1_RulePriority ==
    op = "evaluate" =>
        /\ DenyHits =>
            result.verdict = "REFUSE" /\ result.reasons = <<"denylist_match">>
        /\ ~DenyHits /\ AllowHits =>
            result.verdict = "ALLOW" /\ result.reasons = <<"allowlist_match">>
        /\ ~DenyHits /\ ~AllowHits /\ EscalationHits =>
            result.verdict = "ESCALATE" /\ result.reasons = <<"escalation_match">>
        /\ ~DenyHits /\ ~AllowHits /\ ~EscalationHits =>
            result.verdict = "REFUSE" /\ result.reasons = <<"default_refuse">>

\* A request that an allow rule and a deny rule both match, refused.
C1_Witness ==
    /\ op = "evaluate"
    /\ DenyHits /\ AllowHits
    /\ result.verdict = "REFUSE"
    /\ result.reasons = <<"denylist_match">>

\* ------------------------------------------------------------------ C2

\* The match the claim states: wildcard or equal actor, wildcard or equal
\* action, and every scope_match key present in the request's scope with
\* the same value.
ClaimedMatch(rule, req) ==
    /\ ("actor_id" \notin DOMAIN rule \/ rule["actor_id"] = req["actor_id"])
    /\ ("action_class" \notin DOMAIN rule \/ rule["action_class"] = req["action_class"])
    /\ \A key \in DOMAIN DictGetOr(rule, "scope_match", EmptyDict) :
        /\ key \in DOMAIN req["authority_scope"]
        /\ req["authority_scope"][key] = rule["scope_match"][key]

\* C2: a rule matches a request if and only if its actor_id is absent or
\* equal, its action_class is absent or equal, and every key of its
\* scope_match is present in the request's authority_scope with an identical
\* value; a scope_match key absent from the request's scope never matches.
C2_RuleMatchIff ==
    op = "_find_match" =>
        (result <=> \E i \in 1..Len(args.rules_list) :
                        ClaimedMatch(args.rules_list[i], args.request))
\* ------------------------------------------------------------------ C3

\* The drift run compares the two rulesets under one invariant hash.
SameContract ==
    /\ op = "cmd_drift"
    /\ args.current_invariant_hash \in {None, args.invariant_hash}

Allowed(req, ruleset) == evaluate(req, ruleset).verdict = "ALLOW"

\* The (actor, action) pair an allowlist entry carries, absent counting as "*".
EntryEdge(entry) ==
    <<DictGetOr(entry, "actor_id", "*"), DictGetOr(entry, "action_class", "*")>>

\* C3 as stated: if the drift check of baseline B and current C passes
\* under an unchanged invariant hash, every request that evaluate resolves
\* to ALLOW under C is resolved to ALLOW under B.
C3_NoNewAllow ==
    (SameContract /\ result.drift.pass) =>
        \A req \in CommitRequests :
            Allowed(req, args.ruleset) => Allowed(req, args.baseline_ruleset)

\* C3 as amended: if the drift check passes under an unchanged invariant
\* hash, every allowlist entry of C carries an (actor, action) pair that an
\* allowlist entry of B carries, so every request that is ALLOW under C is
\* matched by an allowlist rule of C whose pair is already in B's graph.
C3_NoNewEdge ==
    (SameContract /\ result.drift.pass) =>
        LET B == args.baseline_ruleset["allowlist"]
            C == args.ruleset["allowlist"]
            InBaseline(entry) == \E j \in 1..Len(B) : EntryEdge(B[j]) = EntryEdge(entry)
        IN  /\ \A i \in 1..Len(C) : InBaseline(C[i])
            /\ \A req \in CommitRequests :
                Allowed(req, args.ruleset) =>
                    \E i \in 1..Len(C) :
                        /\ RuleHits(C[i], req["actor_id"], req["action_class"],
                                    req["authority_scope"])
                        /\ InBaseline(C[i])

\* A passing drift run between two different rulesets, the current one
\* allowing some request.
C3_Witness ==
    /\ SameContract
    /\ result.drift.pass
    /\ args.ruleset # args.baseline_ruleset
    /\ \E req \in CommitRequests : Allowed(req, args.ruleset)

\* ------------------------------------------------------------------ C4

\* The (actor, action) pairs of a graph.
ClaimEdges(graph) ==
    {e \in GraphActors \X GraphActions :
        e[1] \in DOMAIN graph /\ \E j \in 1..Len(graph[e[1]]) : graph[e[1]][j] = e[2]}

AddedEdges == ClaimEdges(args.current_graph) \ ClaimEdges(args.baseline_graph)

HashesEqual == args.baseline_invariant_hash = args.current_invariant_hash

\* C4: detect_drift returns pass/no_expansion when no edge is added (so
\* for detect_drift(G, G, h, h, false), and for pure tightening);
\* fail/reachability_expansion_without_contract_revision when an edge is
\* added and the hashes are equal; pass/expansion_acknowledged_with_
\* contract_revision when an edge is added, the hashes differ and the
\* expansion is acknowledged; fail/expansion_with_contract_revision_but_
\* not_acknowledged when an edge is added, the hashes differ and it is not.
\* So pass with added edges needs a changed hash and the acknowledgement.
C4_DriftPolicy ==
    op = "detect_drift" =>
        /\ AddedEdges = {} =>
            result.pass /\ result.reason = "no_expansion" /\ result.added_edges = <<>>
        /\ (args.baseline_graph = args.current_graph /\ HashesEqual
                /\ ~args.acknowledge_expansion) =>
            result.pass /\ result.reason = "no_expansion"
        /\ (AddedEdges # {} /\ HashesEqual) =>
            /\ ~result.pass
            /\ result.reason = "reachability_expansion_without_contract_revision"
        /\ (AddedEdges # {} /\ ~HashesEqual /\ args.acknowledge_expansion) =>
            /\ result.pass
            /\ result.reason = "expansion_acknowledged_with_contract_revision"
        /\ (AddedEdges # {} /\ ~HashesEqual /\ ~args.acknowledge_expansion) =>
            /\ ~result.pass
            /\ result.reason = "expansion_with_contract_revision_but_not_acknowledged"
        /\ (result.pass /\ result.added_edges # <<>>) =>
            ~HashesEqual /\ args.acknowledge_expansion

\* An acknowledged expansion under a revised contract.
C4_Witness ==
    /\ op = "detect_drift"
    /\ AddedEdges # {}
    /\ result.pass
    /\ result.reason = "expansion_acknowledged_with_contract_revision"

\* ------------------------------------------------------------------ C5

AllowEntries == DictGetOr(args.ruleset, "allowlist", <<>>)

\* C5: the graph has an edge (actor, action) exactly when some allowlist
\* entry carries that actor_id and action_class (absent counting as "*");
\* denylist and escalation entries add and remove nothing, so rulesets
\* that differ only there give the same graph; each actor's action list
\* is sorted and free of duplicates.
C5_GraphFromAllowlist ==
    op = "build_authority_graph" =>
        /\ ClaimEdges(result) = {EntryEdge(AllowEntries[i]) : i \in 1..Len(AllowEntries)}
        /\ DOMAIN result = {EntryEdge(AllowEntries[i])[1] : i \in 1..Len(AllowEntries)}
        /\ \A actor \in DOMAIN result :
            \A j, k \in 1..Len(result[actor]) :
                j < k => StrLt(result[actor][j], result[actor][k])
        /\ \A dl, el \in SeqUpTo(RulePool, 1) :
            build_authority_graph([allowlist |-> AllowEntries, denylist |-> dl,
                                   escalation |-> el]) = result

\* A graph built from a ruleset with a denylist entry, in which one actor
\* has two actions that the allowlist names in descending order.
C5_Witness ==
    /\ op = "build_authority_graph"
    /\ Len(DictGetOr(args.ruleset, "denylist", <<>>)) > 0
    /\ Len(AllowEntries) = 2
    /\ EntryEdge(AllowEntries[1]) = <<"ricky", "FILE">>
    /\ EntryEdge(AllowEntries[2]) = <<"ricky", "DEPLOY">>
    /\ result["ricky"] = <<"DEPLOY", "FILE">>
\* ------------------------------------------------------------------ C6

\* C6: for every required and provided Evidence level, check returns ALLOW
\* if and only if provided >= required and DENY otherwise; so the gate is
\* monotone (a level at least an allowed one is allowed), a NONE gate
\* allows every level and ADMIN passes every gate.
C6_GateCheck ==
    (op = "check" /\ args.provided.cls = "Evidence") =>
        LET required == gate[1]["_required"]
            provided == args.provided
        IN  /\ result \in {Decision("ALLOW"), Decision("DENY")}
            /\ result = Decision("ALLOW") <=>
                    EvidenceValue(provided.name) >= EvidenceValue(required.name)
            /\ result = Decision("ALLOW") =>
                    \A p2 \in EvidenceMembers :
                        p2.value >= provided.value => check(gate[1], p2) = Decision("ALLOW")
            /\ required = Evidence("NONE") => result = Decision("ALLOW")
            /\ provided = Evidence("ADMIN") => result = Decision("ALLOW")

\* A check with exactly the required level, allowed.
C6_Witness ==
    /\ op = "check"
    /\ gate[1]["_required"] = Evidence("OWNER")
    /\ args.provided = Evidence("OWNER")
    /\ result = Decision("ALLOW")

\* ------------------------------------------------------------------ C7

Unregistered ==
    /\ op = "evaluate_transition"
    /\ args.request.transition_id \notin DOMAIN args.registry

\* C7: evaluate_transition returns REFUSED with reason
\* transition_not_registered whenever request.transition_id is not a key of
\* the registry, whatever the authority, the risk class and the token.
C7_UnregisteredRefused ==
    Unregistered =>
        /\ ~Raised(result)
        /\ result.outcome = "REFUSED"
        /\ result.reason = "transition_not_registered"

\* An undeclared transition requested by an ADMIN with an override token,
\* against a registry that declares another transition.
C7_Witness ==
    /\ Unregistered
    /\ args.registry # EmptyDict
    /\ args.context.authority_basis = "ADMIN"
    /\ args.request.override_token = "tok"
    /\ result.outcome = "REFUSED"

\* ------------------------------------------------------------------ C8

\* The transition is declared, and both levels name Evidence members.
Registered ==
    /\ op = "evaluate_transition"
    /\ args.request.transition_id \in DOMAIN args.registry
    /\ args.context.authority_basis \in EvidenceNames
    /\ args.registry[args.request.transition_id]["required_authority"] \in EvidenceNames

ActorLevel == EvidenceValue(args.context.authority_basis)

RequiredLevel ==
    EvidenceValue(args.registry[args.request.transition_id]["required_authority"])

\* C8: evaluate_transition returns APPROVED or SUPERVISED only for a
\* registered transition whose actor's level (context.authority_basis) is
\* at least the entry's required_authority; an actor below the required
\* level gets REFUSED with reason authority_insufficient.
C8_AuthorityRequired ==
    op = "evaluate_transition" =>
        /\ (~Raised(result) /\ result.outcome \in {"APPROVED", "SUPERVISED"}) =>
                Registered /\ ActorLevel >= RequiredLevel
        /\ (Registered /\ ActorLevel < RequiredLevel) =>
                /\ ~Raised(result)
                /\ result.outcome = "REFUSED"
                /\ result.reason = "authority_insufficient"

\* A USER asking for a transition that requires OWNER, refused.
C8_Witness ==
    /\ Registered
    /\ args.context.authority_basis = "USER"
    /\ args.registry[args.request.transition_id]["required_authority"] = "OWNER"
    /\ result.outcome = "REFUSED"
    /\ result.reason = "authority_insufficient"

\* ------------------------------------------------------------------ C9

\* A registered transition, sufficient authority, HIGH or CRITICAL risk.
HighRiskAuthorised ==
    /\ Registered
    /\ ActorLevel >= RequiredLevel
    /\ args.request.risk_class \in {"HIGH", "CRITICAL"}

\* The registry entry declares the risk class and reversibility the request
\* carries, so the claim's "risk_class" reads the same either way.
EntryAgrees ==
    /\ args.registry[args.request.transition_id]["risk_class"] = args.request.risk_class
    /\ args.registry[args.request.transition_id]["irreversible"] = args.request.irreversible

\* C9 as stated: for a registered transition requested with sufficient
\* authority and risk_class HIGH or CRITICAL, evaluate_transition returns
\* REFUSED/SUPERVISION_REQUIRED without an override_token and
\* SUPERVISED/OVERRIDE_TOKEN_PRESENT with one.
C9_OverrideTokenPolicy ==
    (HighRiskAuthorised /\ EntryAgrees) =>
        /\ args.request.override_token = None =>
                result.outcome = "REFUSED" /\ result.reason = "SUPERVISION_REQUIRED"
        /\ args.request.override_token # None =>
                result.outcome = "SUPERVISED" /\ result.reason = "OVERRIDE_TOKEN_PRESENT"

\* C9 as amended: for a registered transition requested with sufficient
\* authority and risk_class HIGH or CRITICAL, evaluate_transition returns
\* SUPERVISED/critical_irreversible_supervised when the request is
\* irreversible and CRITICAL, and APPROVED/authority_sufficient otherwise,
\* with or without an override_token.
C9_CriticalIrreversiblePolicy ==
    HighRiskAuthorised =>
        IF args.request.irreversible /\ args.request.risk_class = "CRITICAL"
        THEN result.outcome = "SUPERVISED"
                /\ result.reason = "critical_irreversible_supervised"
        ELSE result.outcome = "APPROVED" /\ result.reason = "authority_sufficient"

\* TOOL_CALL_HTTP requiring OWNER, HIGH risk, irreversible, asked by an
\* OWNER without a token.
C9_Witness ==
    /\ HighRiskAuthorised
    /\ args.request.transition_id = "TOOL_CALL_HTTP"
    /\ args.registry["TOOL_CALL_HTTP"]["required_authority"] = "OWNER"
    /\ args.registry["TOOL_CALL_HTTP"]["risk_class"] = "HIGH"
    /\ args.registry["TOOL_CALL_HTTP"]["irreversible"]
    /\ args.context.authority_basis = "OWNER"
    /\ args.request.risk_class = "HIGH"
    /\ args.request.irreversible
    /\ args.request.override_token = None
    /\ result.outcome = "APPROVED"

\* ------------------------------------------------------------------ C10

\* mgtp.evaluate.evaluate called with evidence and a valid authority_basis.
EvidencePresent ==
    /\ op = "mgtp.evaluate"
    /\ ~IsNone(args.context.provided_evidence)
    /\ args.context.authority_basis \in EvidenceNames

Sufficient ==
    args.context.provided_evidence.value >= EvidenceValue(args.context.authority_basis)

\* C10: with evidence present and a valid authority_basis, evaluate gives
\* REFUSED/authority_insufficient when the evidence is below the required
\* level, SUPERVISED/critical_irreversible_supervised exactly when the
\* evidence is sufficient and the request is irreversible and CRITICAL,
\* and APPROVED/authority_sufficient in every other sufficient case.
C10_EvaluateOutcome ==
    EvidencePresent =>
        /\ ~Raised(result)
        /\ ~Sufficient =>
                result.outcome = "REFUSED" /\ result.reason = "authority_insufficient"
        /\ (Sufficient /\ args.request.irreversible /\ args.request.risk_class = "CRITICAL") =>
                /\ result.outcome = "SUPERVISED"
                /\ result.reason = "critical_irreversible_supervised"
        /\ (Sufficient /\ ~(args.request.irreversible /\ args.request.risk_class = "CRITICAL")) =>
                result.outcome = "APPROVED" /\ result.reason = "authority_sufficient"
        /\ result.outcome = "SUPERVISED" <=>
                (Sufficient /\ args.request.irreversible /\ args.request.risk_class = "CRITICAL")

\* A CRITICAL but reversible request with sufficient evidence, approved.
C10_Witness ==
    /\ EvidencePresent
    /\ Sufficient
    /\ args.request.risk_class = "CRITICAL"
    /\ ~args.request.irreversible
    /\ result.outcome = "APPROVED"


\* ---- C11 (evaluate_transition agrees with evaluate)
\* An evaluate_transition call for a transition the registry contains, by an
\* actor whose authority_basis names an Evidence level A.
InRegistry ==
    /\ op = "evaluate_transition"
    /\ args.request.transition_id \in DOMAIN args.registry
    /\ args.context.authority_basis \in EvidenceNames

\* The evaluate() call the claim pairs with an evaluate_transition call:
\* authority_basis = the registry's required_authority R, provided_evidence =
\* the level A named by the actor's authority_basis.
CoherentEvaluate ==
    mgtp_evaluate(args.request,
                  AuthorityContext(args.context.actor_id,
                                   args.registry[args.request.transition_id]["required_authority"],
                                   args.context.tenant_id,
                                   Evidence(args.context.authority_basis)))

\* C11: for a registered transition with required_authority R and an actor
\* whose authority_basis names the Evidence level A, evaluate_transition and
\* evaluate(request, context(authority_basis = R, provided_evidence = A))
\* return the same outcome and the same reason; for an R that names no
\* Evidence level neither returns: both raise the same ValueError.
C11_Coherence ==
    InRegistry =>
        IF Raised(CoherentEvaluate)
        THEN result = CoherentEvaluate
        ELSE /\ ~Raised(result)
             /\ result.outcome = CoherentEvaluate.outcome
             /\ result.reason = CoherentEvaluate.reason

\* An actor below the required level: both entry points refuse.
C11_Witness ==
    /\ InRegistry
    /\ args.context.authority_basis = "USER"
    /\ args.registry[args.request.transition_id]["required_authority"] = "ADMIN"
    /\ ~Raised(result)
    /\ result.outcome = "REFUSED"
    /\ result.reason = "authority_insufficient"
    /\ CoherentEvaluate.outcome = "REFUSED"

\* ---- C12 (window fail-closed)
RecordCall == op = "decision_record.evaluate"

DecisionInstant == _parse_rfc3339(args.decision_time)

WindowStartInstant == _parse_rfc3339(args.authority_window_start)

WindowEndInstant == _parse_rfc3339(args.authority_window_end)

\* decision_time strictly before the start or strictly after the end
StrictlyOutside == DecisionInstant < WindowStartInstant \/ DecisionInstant > WindowEndInstant

EvidenceAbsent == IsNone(args.provided_evidence)

\* list.count
Count(x, codes) == Cardinality({i \in 1..Len(codes) : codes[i] = x})

\* C12: a decision_time strictly outside the window gives REFUSE with
\* outside_authority_window among the reason codes, whatever the requested
\* verdict and the evidence; a decision_time equal to a bound (and not beyond
\* the other one) is inside: the window rule adds no reason and forces no
\* REFUSE.
C12_WindowFailClosed ==
    RecordCall =>
        /\ StrictlyOutside =>
                /\ result.verdict = "REFUSE"
                /\ In(OUTSIDE_WINDOW_REASON, result.reason_codes)
        /\ ((DecisionInstant = WindowStartInstant \/ DecisionInstant = WindowEndInstant)
                /\ ~StrictlyOutside) =>
                /\ Count(OUTSIDE_WINDOW_REASON, result.reason_codes)
                       = Count(OUTSIDE_WINDOW_REASON, args.reason_codes)
                /\ (result.verdict # args.requested_verdict =>
                        args.requested_verdict = "ALLOW" /\ EvidenceAbsent)

\* A SUPERVISED request with evidence, decided after the window's end.
C12_Witness ==
    /\ RecordCall
    /\ DecisionInstant > WindowEndInstant
    /\ DecisionInstant >= WindowStartInstant
    /\ args.requested_verdict = "SUPERVISED"
    /\ ~EvidenceAbsent
    /\ ~In(OUTSIDE_WINDOW_REASON, args.reason_codes)
    /\ result.verdict = "REFUSE"
    /\ In(OUTSIDE_WINDOW_REASON, result.reason_codes)

\* ---- C13 (evidence fail-closed)
\* C13 as stated: a requested verdict of ALLOW or APPROVED with evidence None
\* gives REFUSE with evidence_missing, no permissive record has absent
\* evidence, and REFUSE and SUPERVISED requests get no evidence_missing.
C13_AllowShaped ==
    RecordCall =>
        /\ (args.requested_verdict \in {"ALLOW", "APPROVED"} /\ EvidenceAbsent) =>
                /\ result.verdict = "REFUSE"
                /\ In(EVIDENCE_MISSING_REASON, result.reason_codes)
        /\ (result.verdict \in {"ALLOW", "APPROVED"} => ~EvidenceAbsent)
        /\ (args.requested_verdict \in {"REFUSE", "SUPERVISED"} /\ EvidenceAbsent) =>
                Count(EVIDENCE_MISSING_REASON, result.reason_codes)
                    = Count(EVIDENCE_MISSING_REASON, args.reason_codes)

\* C13, amended: the evidence rule acts on a verdict that is ALLOW after the
\* window rule. ALLOW with evidence None gives REFUSE, with evidence_missing
\* when decision_time is inside the window and with outside_authority_window
\* alone when it is outside; no returned record is ALLOW with evidence None;
\* any other requested verdict gets no evidence_missing, and APPROVED inside
\* the window is returned as APPROVED.
C13_EvidenceFailClosed ==
    RecordCall =>
        /\ (args.requested_verdict = "ALLOW" /\ EvidenceAbsent) =>
                /\ result.verdict = "REFUSE"
                /\ IF StrictlyOutside
                   THEN /\ In(OUTSIDE_WINDOW_REASON, result.reason_codes)
                        /\ Count(EVIDENCE_MISSING_REASON, result.reason_codes)
                               = Count(EVIDENCE_MISSING_REASON, args.reason_codes)
                   ELSE In(EVIDENCE_MISSING_REASON, result.reason_codes)
        /\ (result.verdict = "ALLOW" => ~EvidenceAbsent)
        /\ (args.requested_verdict # "ALLOW" /\ EvidenceAbsent) =>
                /\ Count(EVIDENCE_MISSING_REASON, result.reason_codes)
                       = Count(EVIDENCE_MISSING_REASON, args.reason_codes)
                /\ (~StrictlyOutside => result.verdict = args.requested_verdict)

\* ALLOW inside the window without evidence is refused for missing evidence.
C13_Witness ==
    /\ RecordCall
    /\ args.requested_verdict = "ALLOW"
    /\ EvidenceAbsent
    /\ ~StrictlyOutside
    /\ args.reason_codes = <<"allowlist_match">>
    /\ result.verdict = "REFUSE"
    /\ result.reason_codes = <<"allowlist_match", "evidence_missing">>

\* ---- C14 (enforcement only appends)
EnforcementReasons == {OUTSIDE_WINDOW_REASON, EVIDENCE_MISSING_REASON}

\* C14: every caller-supplied reason code is in the returned reason_codes,
\* which are sorted; an enforcement reason the caller supplied is not added
\* again and one it did not supply is added at most once; inside the window,
\* with a requested verdict other than ALLOW or with evidence present, the
\* verdict is the requested one and the reasons are the caller's.
C14_OnlyAppends ==
    RecordCall =>
        /\ \A x \in ReasonPool :
                Count(x, result.reason_codes) >= Count(x, args.reason_codes)
        /\ \A i \in 1..Len(result.reason_codes), j \in 1..Len(result.reason_codes) :
                i < j => ~StrLt(result.reason_codes[j], result.reason_codes[i])
        /\ \A e \in EnforcementReasons :
                IF Count(e, args.reason_codes) > 0
                THEN Count(e, result.reason_codes) = Count(e, args.reason_codes)
                ELSE Count(e, result.reason_codes) <= 1
        /\ \A x \in ReasonPool \ EnforcementReasons :
                Count(x, result.reason_codes) = Count(x, args.reason_codes)
        /\ (~StrictlyOutside /\ (args.requested_verdict # "ALLOW" \/ ~EvidenceAbsent)) =>
                /\ result.verdict = args.requested_verdict
                /\ result.reason_codes = sorted_strs(args.reason_codes)

\* Outside the window the caller's reason stays and one reason is added,
\* though the caller already supplied the other enforcement reason.
C14_Witness ==
    /\ RecordCall
    /\ StrictlyOutside
    /\ args.requested_verdict = "ALLOW"
    /\ EvidenceAbsent
    /\ args.reason_codes = <<"evidence_missing", "allowlist_match">>
    /\ result.reason_codes = <<"allowlist_match", "evidence_missing", "outside_authority_window">>

\* ---- C15 (the evaluator approves only with evidence, authority and time)
EvaluatorCall == op = "evaluator.evaluate"

\* seconds from the request's timestamp to decision_time
DecisionDelta == Instants[args.decision_time] - Instants[args.request.timestamp]

\* C15: a returned verdict other than REFUSED (APPROVED or SUPERVISED) has
\* provided_evidence present and at least the Evidence level that
\* context.authority_basis names, and decision_time within
\* [request.timestamp, request.timestamp + authority_window_seconds]; a
\* decision_time earlier than the request's timestamp is refused.
C15_ApprovalNeedsAll ==
    (EvaluatorCall /\ ~Raised(result)) =>
        /\ result.verdict \in TransitionOutcome
        /\ result.verdict # "REFUSED" =>
                /\ ~IsNone(args.provided_evidence)
                /\ args.context.authority_basis \in EvidenceNames
                /\ args.provided_evidence.value >= EvidenceValue(args.context.authority_basis)
                /\ 0 <= DecisionDelta
                /\ DecisionDelta <= args.authority_window_seconds
        /\ DecisionDelta < 0 => result.verdict = "REFUSED"

\* Approved at the last second of the default window.
C15_Witness ==
    /\ EvaluatorCall
    /\ ~Raised(result)
    /\ result.verdict = "APPROVED"
    /\ DecisionDelta = AUTHORITY_WINDOW_SECONDS
    /\ args.authority_window_seconds = AUTHORITY_WINDOW_SECONDS
    /\ args.provided_evidence = Evidence("OWNER")
    /\ args.context.authority_basis = "OWNER"

\* ---- C16 (hashes and verdict do not depend on the caller's timestamp)
RequestFields == {"actor_id", "action_class", "context", "authority_scope", "invariant_hash"}

\* Two commit requests that differ at most in timestamp_utc.
DifferOnlyInTimestamp(r1, r2) == \A k \in RequestFields : r1[k] = r2[k]

\* The requests of the model that differ from req at most in timestamp_utc.
Twins(req) ==
    LET bare == [k \in RequestFields |-> req[k]]
    IN  {bare} \cup {Stamp(bare, ts) : ts \in Timestamps}

\* The object the claim says request_hash is computed from.
FiveFieldObject ==
    [actor_id |-> args.request["actor_id"], action_class |-> args.request["action_class"],
     context |-> args.request["context"], authority_scope |-> args.request["authority_scope"],
     invariant_hash |-> args.request["invariant_hash"]]

\* C16: every commit request that differs from the evaluated one only in
\* timestamp_utc (absent, or another value) gets, under the same ruleset, the
\* same verdict dict, request_hash and decision_hash included; request_hash
\* is the hash of exactly actor_id, action_class, context, authority_scope and
\* invariant_hash, and decision_hash the hash of exactly that request object,
\* the verdict and the sorted reasons.
C16_TimestampIndependent ==
    op = "evaluate" =>
        /\ \A other \in Twins(args.request) : evaluate(other, args.ruleset) = result
        /\ result.request_hash = canonical_hash(FiveFieldObject)
        /\ result.decision_hash =
               canonical_hash([request |-> FiveFieldObject, verdict |-> result.verdict,
                               reasons |-> sorted_strs(result.reasons)])

\* A stamped request that is allowed; its unstamped and otherwise stamped
\* twins are in StampedRequests.
C16_Witness ==
    /\ op = "evaluate"
    /\ "timestamp_utc" \in DOMAIN args.request
    /\ args.request["timestamp_utc"] = "2026-06-01T12:00:00Z"
    /\ result.verdict = "ALLOW"
    /\ \E other \in Twins(args.request) :
          /\ other \in StampedRequests
          /\ DifferOnlyInTimestamp(args.request, other)
          /\ other # args.request

KeysOf(d) == {d.items[i][1] : i \in 1..Len(d.items)}

ValueOf(d, k) == d.items[CHOOSE i \in 1..Len(d.items) : d.items[i][1] = k][2]

RECURSIVE SameContent(_, _)
\* Python's ==: strs equal; lists equal element by element, in order; dicts
\* with the same keys and equal values, whatever their insertion order.
SameContent(v, w) ==
    /\ v.cls = w.cls
    /\ CASE v.cls = "str" -> v.value = w.value
         [] v.cls = "list" ->
                /\ Len(v.items) = Len(w.items)
                /\ \A i \in 1..Len(v.items) : SameContent(v.items[i], w.items[i])
         [] v.cls = "dict" ->
                /\ KeysOf(v) = KeysOf(w)
                /\ \A k \in KeysOf(v) : SameContent(ValueOf(v, k), ValueOf(w, k))

\* C18: two values have the same canonical bytes exactly when they have the
\* same keys and values at every nesting level, whatever the insertion order
\* of the keys, with lists compared in the order given (so two lists of the
\* same elements in another order differ); canonical_hash is the SHA-256 of
\* those bytes.
C18_StructureOnly ==
    /\ op = "canonicalise" =>
          \A other \in JsonValues :
              (canonicalise_bytes(other) = result) <=> SameContent(args.obj, other)
    /\ op = "canonical_hash" =>
          /\ result = <<"sha256", canonicalise_bytes(args.obj)>>
          /\ \A other \in JsonValues :
                SameContent(args.obj, other) => canonical_hash_bytes(other) = result

\* A dict inserted "z" first, holding a nested dict inserted "z" first and a
\* list: its bytes have the keys in order and the list as given.
C18_Witness ==
    /\ op = "canonicalise"
    /\ args.obj = PyDict(<< <<"z", PyDict(<< <<"z", PyStr("y")>>, <<"a", PyStr("x")>> >>)>>,
                            <<"a", PyList(<<PyStr("y"), PyStr("x")>>)>> >>)
    /\ result = <<"{", "\"", "a", "\"", ":", "[", "\"", "y", "\"", ",", "\"", "x", "\"", "]", ",",
                  "\"", "z", "\"", ":", "{", "\"", "a", "\"", ":", "\"", "x", "\"", ",",
                  "\"", "z", "\"", ":", "\"", "y", "\"", "}", "}">>
    /\ \E other \in JsonValues : other # args.obj /\ canonicalise_bytes(other) = result

\* ---- C19 (the fields DecisionRecord.canonical_bytes covers)
\* The object the claim says is serialised.
ClaimedCanonicalObj(self) ==
    [actor_id |-> self.actor_id, authority_basis |-> self.authority_basis,
     outcome |-> self.outcome, risk_class |-> self.risk_class,
     timestamp |-> self.timestamp, transition_id |-> self.transition_id]

\* A record returned by evaluate_transition.
RecordReturned == op = "evaluate_transition" /\ ~Raised(result)

\* C19: the canonical_bytes of a DecisionRecord is the sorted-key JSON of
\* actor_id, authority_basis, outcome, risk_class, timestamp and
\* transition_id, so a record that differs from it in actor_id or in
\* timestamp has other canonical_bytes and another canonical hash.
C19_CanonicalBytesFields ==
    RecordReturned =>
        /\ DOMAIN CanonicalObj(result) = DOMAIN ClaimedCanonicalObj(result)
        /\ \A actor_id \in {"alice", "bob"}, timestamp \in Timestamps \cup {result.timestamp} :
              LET other == [result EXCEPT !.actor_id = actor_id, !.timestamp = timestamp]
              IN  other # result =>
                    /\ canonical_bytes(other) # canonical_bytes(result)
                    /\ DecisionRecord_canonical_hash(other) # DecisionRecord_canonical_hash(result)

\* ---- C20 (a denial is a returned record)
\* The context names an Evidence level and every registry entry requires one.
ValidAuthority ==
    /\ args.context.authority_basis \in EvidenceNames
    /\ \A t \in DOMAIN args.registry :
          args.registry[t]["required_authority"] \in EvidenceNames

\* C20: for a context whose authority_basis names an Evidence level and a
\* registry whose entries require one, evaluate_transition returns a record
\* and raises nothing; every record it returns, a REFUSED one included, has
\* actor_id, tenant_id and timestamp copied from the inputs and a non-empty
\* context_hash and decision_id; the record evaluate() builds, which has no
\* context_hash, has an empty decision_id.
C20_DenialIsResult ==
    /\ (op = "evaluate_transition" /\ ValidAuthority) =>
          /\ ~Raised(result)
          /\ result.outcome \in TransitionOutcome
    /\ RecordReturned =>
          /\ result.actor_id = args.context.actor_id
          /\ result.tenant_id = args.context.tenant_id
          /\ result.timestamp = args.request.timestamp
          /\ result.context_hash # EmptyStr
          /\ decision_id(result) # EmptyStr
    /\ (op = "mgtp.evaluate" /\ ~Raised(result)) =>
          /\ result.context_hash = EmptyStr
          /\ decision_id(result) = EmptyStr

\* A refusal for a transition the registry does not declare, by an actor
\* with no authority: a record with its audit fields and a decision_id.
C20_Witness ==
    /\ op = "evaluate_transition"
    /\ ValidAuthority
    /\ args.context.authority_basis = "NONE"
    /\ args.request.transition_id \notin DOMAIN args.registry
    /\ ~Raised(result)
    /\ result.outcome = "REFUSED"
    /\ result.actor_id = "alice"
    /\ result.tenant_id = "t1"
    /\ result.timestamp = args.request.timestamp
    /\ decision_id(result) = <<"uuid5", _DECISION_NS, _context_hash(args.request, args.context)>>

\* ---- C21 (evaluate raises ValueError, missing evidence first)
MissingEvidenceError ==
    Raise("ValueError", "provided_evidence is required for MGTP evaluation")

UnknownBasisError == Raise("ValueError", "Unknown authority_basis")

\* C21: mgtp.evaluate.evaluate returns no DecisionRecord and raises
\* ValueError when context.provided_evidence is None, whatever the
\* authority_basis; with evidence present it raises ValueError when
\* authority_basis names no Evidence level; a context with both defects
\* reports the missing evidence.
C21_ValueErrorOrder ==
    op = "mgtp.evaluate" =>
        /\ IsNone(args.context.provided_evidence) => result = MissingEvidenceError
        /\ (/\ ~IsNone(args.context.provided_evidence)
            /\ args.context.authority_basis \notin EvidenceNames)
               => result = UnknownBasisError
        /\ (/\ IsNone(args.context.provided_evidence)
            /\ args.context.authority_basis \notin EvidenceNames)
               => /\ Raised(result)
                  /\ result.raised = "ValueError"
                  /\ result # UnknownBasisError

\* A context with no evidence and the unknown basis ROOT reports the evidence.
C21_Witness ==
    /\ op = "mgtp.evaluate"
    /\ IsNone(args.context.provided_evidence)
    /\ args.context.authority_basis = "ROOT"
    /\ result = MissingEvidenceError

\* ---- C22 (a non-Evidence level is a TypeError, never a decision)
NotEvidence(x) == x.cls # "Evidence"

\* C22: a required_level that is not an Evidence member makes the
\* AuthorityGate constructor raise TypeError and builds no gate; a provided
\* value that is not an Evidence member makes check raise TypeError, never
\* return ALLOW or DENY; and a check, failed or not, leaves the gate and its
\* required_level as they were.
C22_TypeErrorNoDecision ==
    [][/\ (op' = "AuthorityGate" /\ NotEvidence(args'.required_level))
            => /\ Raised(result')
               /\ result'.raised = "TypeError"
               /\ gate' = gate
       /\ (op' = "check" /\ NotEvidence(args'.provided))
            => /\ Raised(result')
               /\ result'.raised = "TypeError"
               /\ gate' = gate]_vars

\* check(2) on a gate that requires USER raised and the gate still requires USER.
C22_Witness ==
    /\ op = "check"
    /\ args.provided = Obj("int", "2", 2)
    /\ Raised(result)
    /\ result.raised = "TypeError"
    /\ gate = <<AuthorityGate(Evidence("USER"))>>

\* ---- C23 (a rule that matches keeps matching when scope keys are added)
\* scope2 has every key of scope with the same value, and maybe more keys.
ScopeExtends(scope2, scope) ==
    /\ DOMAIN scope \subseteq DOMAIN scope2
    /\ \A key \in DOMAIN scope : scope2[key] = scope[key]

\* C23: every rule of the list that matches the request also matches every
\* request that differs only by further keys in authority_scope, so the
\* answer of _find_match stays True for all of them.
C23_ScopeSupersetTolerance ==
    op = "_find_match" =>
        \A i \in 1..Len(args.rules_list) :
            LET rule == args.rules_list[i]
                req == args.request
            IN  RuleHits(rule, req["actor_id"], req["action_class"], req["authority_scope"])
                => \A scope2 \in RequestScopes :
                      ScopeExtends(scope2, req["authority_scope"])
                      => /\ RuleHits(rule, req["actor_id"], req["action_class"], scope2)
                         /\ _find_match(args.rules_list, req["actor_id"],
                                        req["action_class"], scope2)

\* ---- C24 (added_edges and removed_edges are the two set differences)
\* The elements of a sequence.
Elements(seq) == {seq[j] : j \in 1..Len(seq)}

\* Lexicographically sorted and free of duplicates.
StrictlySorted(edges) ==
    \A j \in 1..Len(edges) : \A k \in (j + 1)..Len(edges) : EdgeLt(edges[j], edges[k])

RemovedEdges == ClaimEdges(args.baseline_graph) \ ClaimEdges(args.current_graph)

\* The graph without the pairs in dropped.
DropEdges(graph, dropped) ==
    [actor \in DOMAIN graph |->
        SelectSeq(graph[actor], LAMBDA action : <<actor, action>> \notin dropped)]

\* C24: added_edges holds exactly the pairs of the current graph that the
\* baseline lacks, removed_edges exactly the pairs of the baseline that the
\* current graph lacks, each sorted lexicographically without duplicates;
\* the two share no pair; and a baseline that differs only in having fewer
\* (or none) of the removed pairs gets the same pass, reason and added_edges.
C24_EdgeDifferences ==
    op = "detect_drift" =>
        /\ Elements(result.added_edges) = AddedEdges
        /\ Elements(result.removed_edges) = RemovedEdges
        /\ StrictlySorted(result.added_edges)
        /\ StrictlySorted(result.removed_edges)
        /\ Elements(result.added_edges) \cap Elements(result.removed_edges) = {}
        /\ \A dropped \in SUBSET RemovedEdges :
              LET r2 == detect_drift(DropEdges(args.baseline_graph, dropped),
                                     args.current_graph,
                                     args.baseline_invariant_hash,
                                     args.current_invariant_hash,
                                     args.acknowledge_expansion)
              IN  /\ r2.pass = result.pass
                  /\ r2.reason = result.reason
                  /\ r2.added_edges = result.added_edges
                  /\ Elements(r2.removed_edges) = RemovedEdges \ dropped

\* A run that both adds and removes at least two pairs.
C24_Witness ==
    /\ op = "detect_drift"
    /\ Len(result.added_edges) >= 2
    /\ Len(result.removed_edges) >= 2
    /\ ~result.pass

\* ---- C27 (the evaluator's ordered guard chain)
OutsideAuthorityWindow ==
    DecisionDelta < 0 \/ DecisionDelta > args.authority_window_seconds

\* The verdict and the single reason the claim gives, first match first.
ClaimedGuardChain ==
    IF OutsideAuthorityWindow
    THEN <<"REFUSED", "decision_time_outside_authority_window">>
    ELSE IF IsNone(args.provided_evidence)
    THEN <<"REFUSED", "missing_evidence">>
    ELSE IF args.context.authority_basis \notin EvidenceNames
    THEN <<"REFUSED", "unknown_authority_basis">>
    ELSE IF args.provided_evidence.value < EvidenceValue(args.context.authority_basis)
    THEN <<"REFUSED", "insufficient_evidence">>
    ELSE IF args.request.irreversible \/ args.request.trust_boundary_crossed
    THEN <<"SUPERVISED", "irreversible_or_trust_boundary">>
    ELSE <<"APPROVED", "evidence_sufficient">>

\* C27: every record mgtp.evaluator.evaluate returns carries exactly one
\* reason, the one of the first guard that applies, in the order: time
\* window, evidence None, unknown authority_basis, insufficient evidence,
\* irreversible or trust boundary crossed, else approved; the window reason
\* stands alone even when the evidence is None or too low. Only a timestamp
\* that is not in the "Z" form returns no record.
C27_GuardChain ==
    EvaluatorCall =>
        IF Raised(result)
        THEN args.request.timestamp \notin UtcZ \/ args.decision_time \notin UtcZ
        ELSE /\ Len(result.reasons) = 1
             /\ <<result.verdict, result.reasons[1]>> = ClaimedGuardChain

\* Outside the window and without evidence: the window reason alone.
C27_Witness ==
    /\ EvaluatorCall
    /\ ~Raised(result)
    /\ OutsideAuthorityWindow
    /\ IsNone(args.provided_evidence)
    /\ args.context.authority_basis = "ROOT"
    /\ result.verdict = "REFUSED"
    /\ result.reasons = <<"decision_time_outside_authority_window">>

\* ---- C29 (the entry's risk_class and irreversible decide nothing)
\* Registries that declare the same transitions with the same
\* required_authority, whatever else their entries say.
SameAuthority(registry2, registry) ==
    /\ DOMAIN registry2 = DOMAIN registry
    /\ \A t \in DOMAIN registry :
          registry2[t]["required_authority"] = registry[t]["required_authority"]

\* C29: evaluate_transition gives the same outcome and reason (or raises the
\* same error) for every registry that agrees with the given one on which
\* transitions are declared and on their required_authority, whatever the
\* entries' risk_class and irreversible are; SUPERVISED is returned only for
\* a request that itself is irreversible and CRITICAL, and the record's
\* risk_class is the request's.
C29_EntryFlagsIgnored ==
    op = "evaluate_transition" =>
        /\ \A registry2 \in Registries :
              SameAuthority(registry2, args.registry)
              => LET r2 == evaluate_transition(args.request, args.context, registry2)
                 IN  IF Raised(result) THEN r2 = result
                     ELSE /\ ~Raised(r2)
                          /\ r2.outcome = result.outcome
                          /\ r2.reason = result.reason
        /\ ~Raised(result) =>
              /\ result.risk_class = args.request.risk_class
              /\ result.outcome = "SUPERVISED" =>
                    args.request.irreversible /\ args.request.risk_class = "CRITICAL"
              /\ (result.outcome = "APPROVED" /\ args.request.risk_class = "CRITICAL")
                    => ~args.request.irreversible

\* A reversible LOW request approved although the entry of its transition is
\* irreversible and CRITICAL.
C29_Witness ==
    /\ op = "evaluate_transition"
    /\ ~Raised(result)
    /\ result.outcome = "APPROVED"
    /\ ~args.request.irreversible
    /\ args.request.risk_class = "LOW"
    /\ args.request.transition_id \in DOMAIN args.registry
    /\ args.registry[args.request.transition_id]["irreversible"]
    /\ args.registry[args.request.transition_id]["risk_class"] = "CRITICAL"

\* ---- C30 (cmd_drift without --current-invariant-hash)
\* The pairs of the current ruleset's graph that the baseline artefact lacks.
CmdAddedEdges ==
    ClaimEdges(build_authority_graph(args.ruleset)) \ ClaimEdges(load_graph(args.baseline))

\* C30: a cmd_drift run without --current-invariant-hash compares under the
\* baseline hash on both sides, so a ruleset whose graph adds an edge exits
\* with 1 and reason reachability_expansion_without_contract_revision, with
\* or without --acknowledge-expansion; and every run exits with 0 when the
\* drift result passes and with 1 when it does not.
C30_DefaultHashBlocksExpansion ==
    op = "cmd_drift" =>
        /\ args.current_invariant_hash = None =>
              /\ result.drift = detect_drift(load_graph(args.baseline),
                                             build_authority_graph(args.ruleset),
                                             args.invariant_hash, args.invariant_hash,
                                             args.acknowledge_expansion)
              /\ CmdAddedEdges # {} =>
                    /\ result.exit = 1
                    /\ ~result.drift.pass
                    /\ result.drift.reason =
                          "reachability_expansion_without_contract_revision"
        /\ result.exit \in {0, 1}
        /\ result.exit = 0 <=> result.drift.pass

\* An acknowledged expansion, refused because no current hash was given.
C30_Witness ==
    /\ op = "cmd_drift"
    /\ args.current_invariant_hash = None
    /\ args.acknowledge_expansion
    /\ CmdAddedEdges # {}
    /\ result.exit = 1
    /\ result.drift.reason = "reachability_expansion_without_contract_revision"

\* ---- C25 (RED is terminal)
StopMachineMethods == {"advance", "reset", "transition_to"}

\* C25: in every step, a machine that is RED is RED afterwards, and a call of
\* advance, reset or transition_to (with any target) on it raises ValueError;
\* so after any sequence of such calls it is still RED.
C25_RedIsTerminal ==
    [][\A m \in MachineIds :
          machines[m]._state = "RED"
          => /\ machines'[m]._state = "RED"
             /\ (op' \in StopMachineMethods /\ args'.machine = m)
                   => /\ Raised(result')
                      /\ result'.raised = "ValueError"]_vars

\* reset raised on a RED machine, which is still RED.
C25_Witness ==
    /\ op = "reset"
    /\ args.self._state = "RED"
    /\ Raised(result)
    /\ result.raised = "ValueError"
    /\ machines[args.machine]._state = "RED"

\* ---- C26 (a machine starts GREEN and only moves forward)
MethodCall == op \in StopMachineMethods

Before == _ORDER[args.self._state]

After == _ORDER[machines[args.machine]._state]

Succeeded == result = NoneObj

\* C26: a new StopMachine is GREEN; a successful advance moves exactly one
\* step forward; transition_to succeeds exactly for a target strictly ahead
\* of the current state, then the state is the target (RED from GREEN
\* included), and for the current or an earlier state it raises ValueError.
C26_ForwardOnly ==
    /\ op = "StopMachine" => machines[args.machine]._state = "GREEN"
    /\ (op = "advance" /\ Succeeded) => After = Before + 1
    /\ op = "transition_to" =>
          /\ _ORDER[args.target] > Before
                => Succeeded /\ machines[args.machine]._state = args.target
          /\ _ORDER[args.target] <= Before
                => Raised(result) /\ result.raised = "ValueError"
    /\ (op \in {"advance", "transition_to"} /\ Succeeded) => After > Before

\* transition_to(RED) on a GREEN machine, skipping AMBER.
C26_Witness ==
    /\ op = "transition_to"
    /\ args.self._state = "GREEN"
    /\ args.target = "RED"
    /\ Succeeded
    /\ machines[args.machine]._state = "RED"

\* ---- C28 (a raising call changes nothing; only reset goes back)
\* C28: a call that raises ValueError leaves the machine's state as it was;
\* reset raises exactly on a RED machine and otherwise sets GREEN; a state
\* earlier than the one before the call is reached only by reset, and only
\* from AMBER to GREEN.
C28_RaiseKeepsState ==
    MethodCall =>
        /\ Succeeded \/ (Raised(result) /\ result.raised = "ValueError")
        /\ Raised(result) => machines[args.machine] = args.self
        /\ op = "reset" =>
              /\ Raised(result) <=> args.self._state = "RED"
              /\ Succeeded => machines[args.machine]._state = "GREEN"
        /\ After < Before =>
              /\ op = "reset"
              /\ args.self._state = "AMBER"
              /\ machines[args.machine]._state = "GREEN"

\* reset on an AMBER machine: back to GREEN.
C28_Witness ==
    /\ op = "reset"
    /\ args.self._state = "AMBER"
    /\ Succeeded
    /\ machines[args.machine]._state = "GREEN"
====
